---------------------------- MODULE Spec2Model ----------------------------
(***************************************************************************)
(* State-machine model of the search-engine backend: provider ingestion    *)
(* (Manager.FetchAll / fetchFromProvider over the content, tag and         *)
(* provider repositories), the outbound token-bucket RateLimiter, the      *)
(* inbound Redis sliding-window limiter with its middleware, the caches    *)
(* and the search service over the content repository.                     *)
(*                                                                         *)
(* Spec         ingestion: sync runs (startup sync, sync command) one      *)
(*              after another against one database                         *)
(* SpecLimiter  the token bucket under concurrent Wait and SetRate         *)
(* SpecWindow   the sliding-window limiter and its middleware              *)
(* SpecCache    the in-memory cache: Set, Get, cleanup and its clock       *)
(* SpecSearch   searches over a fixed corpus, without a cache              *)
(* SpecSearchCache  searches with the in-memory or the Redis cache         *)
(* SpecErrors    the error handler of the HTTP layer                       *)
(* SpecScore     the scoring engine on single items                        *)
(* SpecBulk      bulk recomputation of the scores of a corpus              *)
(* SpecUpsert    two syncs upserting the same item                         *)
(* SpecCx        a search whose caller cancels                             *)
(* SpecTx        ReplaceTags step by step, with a reader                   *)
(* SpecRace      concurrent Get and Set on the in-memory cache             *)
(* SpecMigration the parser of the migration files                         *)
(* SpecFetchAll  FetchAll next to RegisterProvider calls;                  *)
(*               SpecFetchAllLive adds the fairness of the scheduler       *)
(***************************************************************************)
EXTENDS Integers, Sequences, FiniteSets, TLC

(***************************************************************************)
(* Bounds of the model                                                     *)
(***************************************************************************)
\* longest payload one Fetch returns
MaxItems == 2
\* number of sync runs (startup sync, sync command) against the database
MaxRuns == 2

(***************************************************************************)
(* Program constants                                                       *)
(***************************************************************************)
\* rate_limit_per_minute the bootstrap writes for each provider
DefaultRate == 60
\* the evaluation day of the scoring function (time.Now() in days)
NowDay == 100
\* a nil *int (reading_time NULL)
Nil == -1

\* ids of the rows of the providers table: provider1 (json), provider2 (xml)
Providers == {1, 2}

VARIABLES
    \* ---- database ----
    provRows,      \* ids of the rows of the providers table
    lastFetched,   \* providers.last_fetched_at, 0 = NULL
    contents,      \* the contents table: sequence of rows, index = id
    tags,          \* the content_tags table: set of <<content_id, tag>>
    clock,         \* time.Now() at the granularity of the timestamp column
    \* ---- one sync run ----
    runs,          \* number of runs started
    phase,         \* position of the run's main goroutine
    registered,    \* Manager.providers (keys)
    limTokens,     \* tokens of Manager.rateLimiters[p]
    wpc,           \* position of the worker goroutine of provider p
    wtodo,         \* the items of the fetched payload not yet processed
    werr,          \* the error fetchFromProvider returned: "none" | "nil" | "err"
    errChan,       \* the buffered channel errors
    errCap,        \* its capacity
    faResult,      \* what FetchAll returned: "none" | "nil" | "err"
    recalcTodo,    \* providers whose scores are still to be recalculated
    \* ---- history of the current run, read only by the properties ----
    hist,
    \* ---- one token-bucket RateLimiter and its callers ----
    rlRate,        \* RateLimiter.rate
    rlTokens,      \* RateLimiter.tokens
    rlMaxTokens,   \* RateLimiter.maxTokens
    rlLastUpdate,  \* RateLimiter.lastUpdate, in ticks
    rlNow,         \* time.Now(), in ticks
    rlSleep,       \* per goroutine: Nil, or the tick its time.Sleep ends
    rlHist,        \* history of the limiter, read only by the properties
    \* ---- the sliding-window limiter of one client IP ----
    swLimit,       \* cfg.RequestsPerMinute after its default
    swZset,        \* members of the sorted set ratelimit:ip
    swTTL,         \* Nil, or the tick the key expires
    swNow,         \* time.Now(), in ticks
    swPc,          \* per handler: position in the pipeline of Allow
    swReq,         \* per handler: now and count of the check in flight
    swLog,         \* the checks answered so far, read only by the properties
    \* ---- the cache (InMemoryCache, or the Redis store behind the wrapper) ----
    cItems,        \* InMemoryCache.items: key -> [value, expiration]
    cDefault,      \* InMemoryCache.defaultTTL, in ticks
    cNow,          \* time.Now(), in ticks
    cLast,         \* per key: the most recent Set, read only by the properties
    cGot,          \* what the most recent Get returned
    \* ---- the search service ----
    sCfg,          \* SearchService: cache kind, queryTimeout, cacheTTL
    sRes,          \* the most recent Search: its request, outcomes and return
    \* ---- calls of functions without state ----
    call,          \* the most recent call: its function, input and output
    \* ---- bulk recomputation of scores ----
    bulk,          \* the most recent pass: its scope and the failed updates
    \* ---- two syncs of one provider on one item ----
    ups,           \* per sync: its position in Upsert and what it read
    \* ---- a search under a caller's context ----
    cx,            \* the steps of the search and the state of the context
    \* ---- ReplaceTags and a concurrent reader ----
    tx,            \* the transaction of ReplaceTags and what the reader saw
    \* ---- concurrent Get and Set on one key of the local cache ----
    cg,            \* per goroutine: its position in Get and what it read
    \* ---- FetchAll next to RegisterProvider ----
    fa             \* the manager, its lock, the error channel and the workers

dbVars == <<provRows, lastFetched, contents, tags, clock>>
runVars == <<runs, phase, registered, limTokens, wpc, wtodo, werr,
             errChan, errCap, faResult, recalcTodo>>
syncVars == <<dbVars, runVars, hist>>
rlVars == <<rlRate, rlTokens, rlMaxTokens, rlLastUpdate, rlNow, rlSleep, rlHist>>
swVars == <<swLimit, swZset, swTTL, swNow, swPc, swReq, swLog>>
cacheVars == <<cItems, cDefault, cNow, cLast, cGot>>
searchVars == <<sCfg, sRes>>
restVars == <<call, bulk, ups, cx, tx, cg, fa>>
vars == <<syncVars, rlVars, swVars, cacheVars, searchVars, restVars>>


(***************************************************************************)
(* Scoring engine.  Scores are kept in units of 1/10000, the precision of  *)
(* the column score DECIMAL(10, 4).                                        *)
(***************************************************************************)
\* n/d rounded to the nearest integer, as the DECIMAL column rounds
RoundDiv(n, d) == (2 * n + d) \div (2 * d)

IsVideo(c) == c.Type = "video"

IsArticle(c) == c.Type = "article"

calculateVideoBaseScore(c) == c.Views * 10 + c.Likes * 100

calculateArticleBaseScore(c) ==
    (IF c.ReadingTime # Nil THEN c.ReadingTime * 10000 ELSE 0) + c.Reactions * 200

CalculateBaseScore(c) ==
    IF IsVideo(c) THEN calculateVideoBaseScore(c)
    ELSE IF IsArticle(c) THEN calculateArticleBaseScore(c)
    ELSE 0

\* the coefficient in tenths: 1.5 for a video, 1.0 otherwise
GetContentTypeCoefficient(t) == IF t = "video" THEN 15 ELSE 10

\* a freshness score whose steps end one day early
CalculateFreshnessScoreEarly(publishedAt, now) ==
    LET days == now - publishedAt
    IN  IF days < 7 THEN 50000
        ELSE IF days < 30 THEN 30000
        ELSE IF days < 90 THEN 10000
        ELSE 0

CalculateFreshnessScore(publishedAt, now) ==
    LET days == now - publishedAt
    IN  IF days <= 7 THEN 50000
        ELSE IF days <= 30 THEN 30000
        ELSE IF days <= 90 THEN 10000
        ELSE 0

calculateVideoEngagementScore(c) ==
    IF c.Views = 0 THEN 0 ELSE RoundDiv(c.Likes * 100000, c.Views)

\* an engagement score of an article scaled like the one of a video
calculateArticleEngagementScoreTimes10(c) ==
    IF c.ReadingTime = Nil \/ c.ReadingTime = 0 THEN 0
    ELSE RoundDiv(c.Reactions * 100000, c.ReadingTime)

calculateArticleEngagementScore(c) ==
    IF c.ReadingTime = Nil \/ c.ReadingTime = 0 THEN 0
    ELSE RoundDiv(c.Reactions * 50000, c.ReadingTime)

CalculateEngagementScore(c) ==
    IF IsVideo(c) THEN calculateVideoEngagementScore(c)
    ELSE IF IsArticle(c) THEN calculateArticleEngagementScore(c)
    ELSE 0

CalculateFinalScore(c, now) ==
    (CalculateBaseScore(c) * GetContentTypeCoefficient(c.Type)) \div 10
        + CalculateFreshnessScore(c.PublishedAt, now)
        + CalculateEngagementScore(c)

(***************************************************************************)
(* Content model and the fetched feeds                                     *)
(***************************************************************************)
\* what transformToContent builds from one feed item: Score keeps its zero
\* value, ProviderID and ID are filled in by the manager and the repository
Item(ext, title, type, views, likes, rt, reactions, published, tgs) ==
    [ExternalID |-> ext, Title |-> title, Type |-> type,
     Views |-> views, Likes |-> likes,
     ReadingTime |-> rt, Reactions |-> reactions,
     PublishedAt |-> published, Score |-> 0, Tags |-> tgs]

\* the items a feed of provider p can carry: for provider1 (json) a video
\* in two versions (new metrics, tags dropped) and an item without a title,
\* for provider2 (xml) an article
FeedItems(p) ==
    IF p = 1
    THEN { Item("a", "T", "video", 1000, 100, Nil, 0, 97, <<"go">>),
           Item("a", "T", "video", 2000, 100, Nil, 0, 97, <<>>),
           Item("b", "", "video", 500, 5, Nil, 0, 97, <<"db">>) }
    ELSE { Item("a", "T", "article", 0, 0, 10, 500, 55, <<"db", "go">>) }

\* the payloads Fetch can return for provider p: any list of its items
Payloads(p) ==
    UNION { [1..n -> FeedItems(p)] : n \in 0..MaxItems }

ValidateContent(c) ==
    /\ c.Title # ""
    /\ c.Type \in {"video", "article"}
    /\ c.ProviderID > 0
    /\ c.ExternalID # ""
    /\ c.PublishedAt # 0
    /\ IsVideo(c) => (c.Views >= 0 /\ c.Likes >= 0)
    /\ IsArticle(c) => /\ ~(c.ReadingTime # Nil /\ c.ReadingTime < 0)
                       /\ c.Reactions >= 0

(***************************************************************************)
(* Content repository                                                      *)
(***************************************************************************)
\* the columns of a row of the contents table written from a Content
RowOf(c) ==
    [provider_id |-> c.ProviderID, external_id |-> c.ExternalID,
     title |-> c.Title, type |-> c.Type,
     views |-> c.Views, likes |-> c.Likes,
     reading_time |-> c.ReadingTime, reactions |-> c.Reactions,
     published_at |-> c.PublishedAt, score |-> c.Score]

\* a row read back as a Content
ContentOf(row) ==
    [ProviderID |-> row.provider_id, ExternalID |-> row.external_id,
     Title |-> row.title, Type |-> row.type,
     Views |-> row.views, Likes |-> row.likes,
     ReadingTime |-> row.reading_time, Reactions |-> row.reactions,
     PublishedAt |-> row.published_at, Score |-> row.score]

\* id of the row with this (provider_id, external_id), 0 when there is none
GetByProviderAndExternalID(tbl, providerID, externalID) ==
    LET hit == { i \in 1..Len(tbl) : /\ tbl[i].provider_id = providerID
                                     /\ tbl[i].external_id = externalID }
    IN  IF hit = {} THEN 0 ELSE CHOOSE i \in hit : TRUE

\* INSERT INTO contents: [ok, tbl]; the unique key uk_provider_external
\* rejects a second row for the pair
Create(tbl, c) ==
    IF ~ValidateContent(c) THEN [ok |-> FALSE, tbl |-> tbl]
    ELSE IF GetByProviderAndExternalID(tbl, c.ProviderID, c.ExternalID) # 0
         THEN [ok |-> FALSE, tbl |-> tbl]
    ELSE [ok |-> TRUE, tbl |-> Append(tbl, RowOf(c))]

\* UPDATE contents ... WHERE id = ?: [ok, tbl]
Update(tbl, id, c) ==
    IF ~ValidateContent(c) THEN [ok |-> FALSE, tbl |-> tbl]
    ELSE [ok |-> TRUE,
          tbl |-> [i \in 1..Len(tbl) |-> IF i = id THEN RowOf(c) ELSE tbl[i]]]

\* UpsertWrite without c.ID = existing.ID: the UPDATE matches no row
UpsertWriteNoID(tbl, existing, c) ==
    IF existing = 0 THEN Create(tbl, c) ELSE Update(tbl, 0, c)

\* the write of Upsert after its lookup returned `existing` (0: not found)
UpsertWrite(tbl, existing, c) ==
    IF existing = 0 THEN Create(tbl, c) ELSE Update(tbl, existing, c)

\* Upsert with both round trips back to back
Upsert(tbl, c) ==
    UpsertWrite(tbl, GetByProviderAndExternalID(tbl, c.ProviderID, c.ExternalID), c)

\* UPDATE contents SET score = ? WHERE id = ?
UpdateScore(tbl, id, score) ==
    [i \in 1..Len(tbl) |-> IF i = id THEN [tbl[i] EXCEPT !.score = score] ELSE tbl[i]]

(***************************************************************************)
(* Tag repository                                                          *)
(***************************************************************************)
SeqToSet(s) == { s[i] : i \in 1..Len(s) }

HasDuplicate(s) == \E i, j \in 1..Len(s) : i < j /\ s[i] = s[j]

TagsOf(tagTbl, contentID) == { t[2] : t \in { x \in tagTbl : x[1] = contentID } }

\* ReplaceTags in its transaction: delete the item's tags, insert the new
\* ones; the unique key uk_content_tag fails the insert of a repeated label
\* and the deferred Rollback restores the table
ReplaceTags(tagTbl, contentID, newTags) ==
    IF HasDuplicate(newTags) THEN [ok |-> FALSE, tbl |-> tagTbl]
    ELSE [ok |-> TRUE,
          tbl |-> { x \in tagTbl : x[1] # contentID }
                    \cup { <<contentID, newTags[i]>> : i \in 1..Len(newTags) }]


\* F applied to the value of x, which is computed once and held as an
\* explicit value
With(x, F(_)) == CHOOSE r \in { F(v) : v \in { y \in {x} : y = y } } : TRUE

\* ids of the rows of provider p, ORDER BY published_at DESC (ties by id)
OrderedIds(tbl, ids) ==
    LET before(j, i) == \/ tbl[j].published_at > tbl[i].published_at
                        \/ /\ tbl[j].published_at = tbl[i].published_at
                           /\ j < i
    IN  With({ <<Cardinality({ j \in ids : before(j, i) }), i>> : i \in ids },
             LAMBDA ranked :
                [k \in 1..Cardinality(ids) |->
                    (CHOOSE r \in ranked : r[1] = k - 1)[2]])

\* SELECT ... WHERE provider_id = ? ORDER BY published_at DESC LIMIT ? OFFSET ?
GetByProviderID(tbl, providerID, limit, offset) ==
    With(OrderedIds(tbl, { i \in 1..Len(tbl) : tbl[i].provider_id = providerID }),
         LAMBDA all :
            SubSeq(all, offset + 1,
                   IF offset + limit < Len(all) THEN offset + limit ELSE Len(all)))

(***************************************************************************)
(* Scoring service                                                         *)
(***************************************************************************)
\* the batch size of the bulk passes
BatchSize == 100

\* the scores of one batch written back, except for the ids whose
\* UpdateScore fails
UpdateBatch(tbl, batch, failIds) ==
    With(SeqToSet(batch) \ failIds,
         LAMBDA done :
            [id \in 1..Len(tbl) |->
                IF id \in done
                THEN UpdateScore(tbl, id,
                         CalculateFinalScore(ContentOf(tbl[id]), NowDay))[id]
                ELSE tbl[id]])

\* one round of the loop of RecalculateScoresForProvider: the batch at
\* `offset` is rescored and the loop goes on after a full batch
RECURSIVE RecalculateFrom(_, _, _, _)
RecalculateBatch(tbl, batch, providerID, offset, failIds) ==
    IF Len(batch) = 0 THEN tbl
    ELSE With(UpdateBatch(tbl, batch, failIds),
              LAMBDA next :
                 IF Len(batch) < BatchSize THEN next
                 ELSE RecalculateFrom(next, providerID, offset + BatchSize, failIds))

\* the loop of RecalculateScoresForProvider from `offset` on
RecalculateFrom(tbl, providerID, offset, failIds) ==
    With(tbl, LAMBDA t :
       With(GetByProviderID(t, providerID, BatchSize, offset),
            LAMBDA batch : RecalculateBatch(t, batch, providerID, offset, failIds)))

RecalculateScoresForProvider(tbl, providerID, failIds) ==
    RecalculateFrom(tbl, providerID, 0, failIds)

\* the last provider id RecalculateAllScores asks for
LastProviderID == 10

\* one round of the inner loop of RecalculateAllScores: after a full batch
\* the offset is advanced twice
RECURSIVE RecalculateAllFrom(_, _, _, _)
RecalculateAllBatch(tbl, batch, providerID, offset, failIds) ==
    IF Len(batch) = 0 THEN tbl
    ELSE With(UpdateBatch(tbl, batch, failIds),
              LAMBDA next :
                 IF Len(batch) < BatchSize THEN next
                 ELSE RecalculateAllFrom(next, providerID,
                                         offset + BatchSize + BatchSize, failIds))

\* the inner loop of RecalculateAllScores for one provider, from `offset` on
RecalculateAllFrom(tbl, providerID, offset, failIds) ==
    With(tbl, LAMBDA t :
       With(GetByProviderID(t, providerID, BatchSize, offset),
            LAMBDA batch : RecalculateAllBatch(t, batch, providerID, offset, failIds)))

\* the outer loop of RecalculateAllScores, from provider id `providerID` on
RECURSIVE RecalculateAllProviders(_, _, _)
RecalculateAllProviders(tbl, providerID, failIds) ==
    IF providerID > LastProviderID THEN tbl
    ELSE RecalculateAllProviders(RecalculateAllFrom(tbl, providerID, 0, failIds),
                                 providerID + 1, failIds)

RecalculateAllScores(tbl, failIds) == RecalculateAllProviders(tbl, 1, failIds)

(***************************************************************************)
(* History of the current run (read only by the properties)                *)
(***************************************************************************)
\* the loop over the fetched items of one worker, while it runs
LoopInit ==
    [nFetched |-> 0,       \* length of the payload
     nTried   |-> 0,       \* items given to Upsert
     nFailed  |-> 0,       \* Upserts that returned an error
     lastUp   |-> "none",  \* outcome of the last Upsert
     clean    |-> TRUE]    \* no storage error in the last iteration

HistInit ==
    [synced   |-> [p \in Providers |-> 0],      \* calls of fetchFromProvider
     fetchOk  |-> [p \in Providers |-> FALSE],  \* Fetch returned a payload
     lookupOk |-> [p \in Providers |-> FALSE],  \* GetByName found the provider
     loop     |-> [p \in Providers |-> LoopInit],
     stamps   |-> [p \in Providers |-> 0],      \* calls of UpdateLastFetched
     stampOk  |-> [p \in Providers |-> FALSE],  \* the last one succeeded
     absorbed |-> [p \in Providers |-> FALSE],  \* an Upsert failed before it
     upserted |-> {}]                           \* ids upserted in this run

(***************************************************************************)
(* Ingestion: the initial state                                            *)
(***************************************************************************)
InitSync ==
    /\ provRows = {}
    /\ lastFetched = [p \in Providers |-> 0]
    /\ contents = <<>>
    /\ tags = {}
    /\ clock = 0
    /\ runs = 0
    /\ phase = "idle"
    /\ registered = {}
    /\ limTokens = [p \in Providers |-> 0]
    /\ wpc = [p \in Providers |-> "idle"]
    /\ wtodo = [p \in Providers |-> <<>>]
    /\ werr = [p \in Providers |-> "none"]
    /\ errChan = <<>>
    /\ errCap = 0
    /\ faResult = "none"
    /\ recalcTodo = <<>>
    /\ hist = HistInit

(***************************************************************************)
(* Ingestion: one sync run.  syncProvidersOnStartup and the sync command   *)
(* build a Manager, register both providers, call FetchAll and, when it    *)
(* returned nil, recalculate the scores of every provider.                 *)
(***************************************************************************)
\* NewRateLimiter(rate).tokens
NewRateLimiter(rate) == IF rate < 1 THEN 1 ELSE rate

\* the bootstrap of a run: the provider rows are ensured, a new Manager is
\* built and RegisterProvider is called for provider1 and provider2
StartRun ==
    /\ phase \in {"idle", "finished"}
    /\ runs < MaxRuns
    /\ runs' = runs + 1
    /\ clock' = clock + 1
    /\ provRows' = Providers
    /\ registered' = Providers
    /\ limTokens' = [p \in Providers |-> NewRateLimiter(DefaultRate)]
    /\ wpc' = [p \in Providers |-> "idle"]
    /\ wtodo' = [p \in Providers |-> <<>>]
    /\ werr' = [p \in Providers |-> "none"]
    /\ errChan' = <<>>
    /\ errCap' = 0
    /\ faResult' = "none"
    /\ recalcTodo' = <<>>
    /\ phase' = "fetchAll"
    /\ hist' = HistInit
    /\ UNCHANGED <<rlVars, swVars, cacheVars, searchVars, restVars>>
    /\ UNCHANGED <<lastFetched, contents, tags>>

\* FetchAll up to wg.Wait: the channel is made, one goroutine per provider
FetchAllStart ==
    /\ phase = "fetchAll"
    /\ errCap' = Cardinality(registered)
    /\ wpc' = [p \in Providers |-> IF p \in registered THEN "wait" ELSE wpc[p]]
    /\ phase' = "wgWait"
    /\ UNCHANGED <<rlVars, swVars, cacheVars, searchVars, restVars>>
    /\ UNCHANGED <<dbVars, runs, registered, limTokens, wtodo, werr,
                   errChan, faResult, recalcTodo, hist>>

\* fetchFromProvider up to limiter.Wait(): every path of Wait takes a token
WorkerWait(p) ==
    /\ wpc[p] = "wait"
    /\ limTokens' = [limTokens EXCEPT ![p] = @ - 1]
    /\ wpc' = [wpc EXCEPT ![p] = "fetch"]
    /\ hist' = [hist EXCEPT !.synced[p] = @ + 1]
    /\ UNCHANGED <<rlVars, swVars, cacheVars, searchVars, restVars>>
    /\ UNCHANGED <<dbVars, runs, phase, registered, wtodo, werr,
                   errChan, errCap, faResult, recalcTodo>>

\* WorkerFetchFail with the timestamp written before the error is checked
WorkerFetchFailStamped(p) ==
    /\ wpc[p] = "fetch"
    /\ werr' = [werr EXCEPT ![p] = "err"]
    /\ wpc' = [wpc EXCEPT ![p] = "send"]
    /\ lastFetched' = [lastFetched EXCEPT ![p] = clock]
    /\ UNCHANGED <<rlVars, swVars, cacheVars, searchVars, restVars>>
    /\ UNCHANGED <<provRows, contents, tags, clock, runs, phase, registered,
                   limTokens, wtodo, errChan, errCap, faResult, recalcTodo, hist>>

\* provider.Fetch() fails: fetchFromProvider returns the error
WorkerFetchFail(p) ==
    /\ wpc[p] = "fetch"
    /\ werr' = [werr EXCEPT ![p] = "err"]
    /\ wpc' = [wpc EXCEPT ![p] = "send"]
    /\ UNCHANGED <<rlVars, swVars, cacheVars, searchVars, restVars>>
    /\ UNCHANGED <<dbVars, runs, phase, registered, limTokens, wtodo,
                   errChan, errCap, faResult, recalcTodo, hist>>

\* provider.Fetch() returns a payload
WorkerFetchOk(p) ==
    /\ wpc[p] = "fetch"
    /\ \E payload \in Payloads(p) :
        /\ wtodo' = [wtodo EXCEPT ![p] = payload]
        /\ hist' = [hist EXCEPT !.fetchOk[p] = TRUE,
                                !.loop[p].nFetched = Len(payload)]
    /\ wpc' = [wpc EXCEPT ![p] = "lookup"]
    /\ UNCHANGED <<rlVars, swVars, cacheVars, searchVars, restVars>>
    /\ UNCHANGED <<dbVars, runs, phase, registered, limTokens, werr,
                   errChan, errCap, faResult, recalcTodo>>

\* providerRepo.GetByName: on an error fetchFromProvider returns it
WorkerLookup(p) ==
    /\ wpc[p] = "lookup"
    /\ \E dbOk \in BOOLEAN :
        IF dbOk /\ p \in provRows
        THEN /\ wpc' = [wpc EXCEPT ![p] = "items"]
             /\ hist' = [hist EXCEPT !.lookupOk[p] = TRUE]
             /\ UNCHANGED <<werr, wtodo>>
        ELSE /\ wpc' = [wpc EXCEPT ![p] = "send"]
             /\ werr' = [werr EXCEPT ![p] = "err"]
             /\ wtodo' = [wtodo EXCEPT ![p] = <<>>]
             /\ UNCHANGED hist
    /\ UNCHANGED <<rlVars, swVars, cacheVars, searchVars, restVars>>
    /\ UNCHANGED <<dbVars, runs, phase, registered, limTokens,
                   errChan, errCap, faResult, recalcTodo>>

\* content.ProviderID = providerModel.ID
WithProvider(item, p) ==
    [ProviderID |-> p, ExternalID |-> item.ExternalID, Title |-> item.Title,
     Type |-> item.Type, Views |-> item.Views, Likes |-> item.Likes,
     ReadingTime |-> item.ReadingTime, Reactions |-> item.Reactions,
     PublishedAt |-> item.PublishedAt, Score |-> item.Score]

\* whether the loop body calls ReplaceTags for this payload
SavesTags(tgs) == Len(tgs) > 0

\* NextItems with a return instead of the continue after a failed Upsert
NextItemsAbort(todo, upsertOk) == IF upsertOk THEN Tail(todo) ELSE <<>>

\* the rest of the loop once the item at its head has been handled
NextItems(todo, upsertOk) == Tail(todo)

\* one iteration of the loop over the fetched items: Upsert, the lookup of
\* the id, ReplaceTags; each failure is logged and the loop goes on
WorkerItem(p) ==
    /\ wpc[p] = "items"
    /\ wtodo[p] # <<>>
    /\ LET item == Head(wtodo[p])
           c == WithProvider(item, p)
           existing == GetByProviderAndExternalID(contents, p, c.ExternalID)
       IN  \E dbUpsert \in BOOLEAN :
           LET up == IF dbUpsert THEN Upsert(contents, c)
                     ELSE [ok |-> FALSE, tbl |-> contents]
           IN  \E dbGet \in (IF up.ok THEN BOOLEAN ELSE {TRUE}) :
               LET id == IF up.ok /\ dbGet
                         THEN GetByProviderAndExternalID(up.tbl, p, c.ExternalID)
                         ELSE 0
                   saves == id # 0 /\ SavesTags(item.Tags)
               IN  \E dbTags \in (IF saves THEN BOOLEAN ELSE {TRUE}) :
                   LET tg == IF saves
                             THEN IF dbTags THEN ReplaceTags(tags, id, item.Tags)
                                  ELSE [ok |-> FALSE, tbl |-> tags]
                             ELSE [ok |-> TRUE, tbl |-> tags]
                       rowId == GetByProviderAndExternalID(up.tbl, p, c.ExternalID)
                   IN  /\ contents' = up.tbl
                       /\ tags' = tg.tbl
                       /\ wtodo' = [wtodo EXCEPT ![p] = NextItems(@, up.ok)]
                       /\ hist' = [hist EXCEPT
                            !.loop[p].nTried = @ + 1,
                            !.loop[p].nFailed = IF up.ok THEN @ ELSE @ + 1,
                            !.loop[p].lastUp =
                                IF ~up.ok THEN "failed"
                                ELSE IF existing = 0 THEN "created"
                                ELSE IF contents[existing].views # c.Views
                                     THEN "changed"
                                ELSE "same",
                            !.loop[p].clean = dbUpsert /\ dbGet /\ dbTags,
                            !.upserted = IF up.ok THEN @ \cup {rowId} ELSE @]
    /\ UNCHANGED <<rlVars, swVars, cacheVars, searchVars, restVars>>
    /\ UNCHANGED <<provRows, lastFetched, clock, runs, phase,
                   registered, limTokens, wpc, werr, errChan, errCap, faResult,
                   recalcTodo>>

\* after the loop: UpdateLastFetched (a failure is only logged), return nil,
\* and the deferred wg.Done()
WorkerStamp(p) ==
    /\ wpc[p] = "items"
    /\ wtodo[p] = <<>>
    /\ \E dbOk \in BOOLEAN :
        /\ lastFetched' = IF dbOk THEN [lastFetched EXCEPT ![p] = clock]
                          ELSE lastFetched
        /\ hist' = [hist EXCEPT !.stamps[p] = @ + 1, !.stampOk[p] = dbOk,
                                !.absorbed[p] = hist.loop[p].nFailed > 0,
                                !.loop[p] = LoopInit]
    /\ werr' = [werr EXCEPT ![p] = "nil"]
    /\ wpc' = [wpc EXCEPT ![p] = "done"]
    /\ UNCHANGED <<rlVars, swVars, cacheVars, searchVars, restVars>>
    /\ UNCHANGED <<provRows, contents, tags, clock, runs, phase,
                   registered, limTokens, wtodo, errChan, errCap, faResult,
                   recalcTodo>>

\* errors <- err in the goroutine of FetchAll, then wg.Done()
WorkerSend(p) ==
    /\ wpc[p] = "send"
    /\ Len(errChan) < errCap
    /\ errChan' = Append(errChan, p)
    /\ wpc' = [wpc EXCEPT ![p] = "done"]
    /\ UNCHANGED <<rlVars, swVars, cacheVars, searchVars, restVars>>
    /\ UNCHANGED <<dbVars, runs, phase, registered, limTokens, wtodo,
                   werr, errCap, faResult, recalcTodo, hist>>

\* FetchAllResult reporting a failure only when every provider failed
FetchAllResultAllFailed(chan) == IF Len(chan) >= errCap THEN "err" ELSE "nil"

\* what FetchAll returns once wg.Wait() is over and the channel is drained
FetchAllResult(chan) == IF Len(chan) > 0 THEN "err" ELSE "nil"

\* wg.Wait() returns, the channel is closed and drained, FetchAll returns;
\* on an error the startup sync returns and the sync command exits
FetchAllReturn ==
    /\ phase = "wgWait"
    /\ \A p \in registered : wpc[p] = "done"
    /\ faResult' = FetchAllResult(errChan)
    /\ errChan' = <<>>
    /\ phase' = IF FetchAllResult(errChan) = "err" THEN "finished" ELSE "getAll"
    /\ UNCHANGED <<rlVars, swVars, cacheVars, searchVars, restVars>>
    /\ UNCHANGED <<dbVars, runs, registered, limTokens, wpc, wtodo,
                   werr, errCap, recalcTodo, hist>>

\* providerRepo.GetAll() before the recalculation: ORDER BY name; on an
\* error the startup sync recalculates nothing and the sync command exits
GetAllProviders ==
    /\ phase = "getAll"
    /\ \E dbOk \in BOOLEAN :
        recalcTodo' = IF dbOk THEN <<1, 2>> ELSE <<>>
    /\ phase' = "scoring"
    /\ UNCHANGED <<rlVars, swVars, cacheVars, searchVars, restVars>>
    /\ UNCHANGED <<dbVars, runs, registered, limTokens, wpc, wtodo,
                   werr, errChan, errCap, faResult, hist>>

\* scoringService.RecalculateScoresForProvider(p.ID) for the next provider
RecalcProvider ==
    /\ phase = "scoring"
    /\ recalcTodo # <<>>
    /\ LET p == Head(recalcTodo)
           ids == { i \in 1..Len(contents) : contents[i].provider_id = p }
       IN  \E dbOk \in BOOLEAN : \E failIds \in SUBSET ids :
             contents' = IF dbOk
                         THEN RecalculateScoresForProvider(contents, p, failIds)
                         ELSE contents
    /\ recalcTodo' = Tail(recalcTodo)
    /\ UNCHANGED <<rlVars, swVars, cacheVars, searchVars, restVars>>
    /\ UNCHANGED <<provRows, lastFetched, tags, clock, runs, phase,
                   registered, limTokens, wpc, wtodo, werr, errChan, errCap,
                   faResult, hist>>

\* the run returns
FinishRun ==
    /\ phase = "scoring"
    /\ recalcTodo = <<>>
    /\ phase' = "finished"
    /\ UNCHANGED <<rlVars, swVars, cacheVars, searchVars, restVars>>
    /\ UNCHANGED <<dbVars, runs, registered, limTokens, wpc, wtodo,
                   werr, errChan, errCap, faResult, recalcTodo, hist>>

(***************************************************************************)
(* The token bucket (provider.RateLimiter).  Time is counted in ticks;     *)
(* every critical section of Wait and SetRate is one step, the time.Sleep  *)
(* of Wait, taken with the mutex released, lies between two steps.         *)
(***************************************************************************)
\* goroutines calling Wait on the same limiter
MaxCallers == 2
\* ticks in time.Minute
TicksPerMinute == 4
\* last tick of the limiter's clock
MaxTick == 6

Callers == 1..MaxCallers

\* the rates given to NewRateLimiter and SetRate: 0, and the rates whose
\* time.Minute / rate is a whole number of ticks
RateInputs == {0} \cup { r \in 1..TicksPerMinute : TicksPerMinute % r = 0 }

\* int(elapsed.Minutes() * float64(rl.rate))
TokensToAdd(elapsed, rate) == (elapsed * rate) \div TicksPerMinute

\* time.Minute / time.Duration(rl.rate)
TimePerToken(rate) == TicksPerMinute \div rate

\* rl.tokens after the refill of Wait
Refill(tokens, maxTokens, add) ==
    IF add <= 0 THEN tokens
    ELSE IF tokens + add > maxTokens THEN maxTokens ELSE tokens + add

Max(a, b) == IF a > b THEN a ELSE b

InitLimiter ==
    \E r \in RateInputs :
        /\ rlRate = NewRateLimiter(r)
        /\ rlTokens = NewRateLimiter(r)
        /\ rlMaxTokens = NewRateLimiter(r)
        /\ rlLastUpdate = 0
        /\ rlNow = 0
        /\ rlSleep = [g \in Callers |-> Nil]
        /\ rlHist = [returns |-> 0,                   \* Wait calls returned
                     start   |-> NewRateLimiter(r),   \* tokens at tick 0
                     peak    |-> NewRateLimiter(r)]   \* highest rate so far

\* no limiter is running
LimiterOff ==
    /\ rlRate = 1
    /\ rlTokens = 1
    /\ rlMaxTokens = 1
    /\ rlLastUpdate = 0
    /\ rlNow = 0
    /\ rlSleep = [g \in Callers |-> Nil]
    /\ rlHist = [returns |-> 0, start |-> 1, peak |-> 1]

\* Wait from its Lock to its return or to the Unlock before time.Sleep
WaitEnter(g) ==
    /\ rlSleep[g] = Nil
    /\ LET elapsed == rlNow - rlLastUpdate
           add == TokensToAdd(elapsed, rlRate)
           tok == Refill(rlTokens, rlMaxTokens, add)
           upd == IF add > 0 THEN rlNow ELSE rlLastUpdate
           waitTime == TimePerToken(rlRate) - elapsed
       IN  IF tok > 0
           THEN /\ rlTokens' = tok - 1
                /\ rlLastUpdate' = upd
                /\ rlHist' = [rlHist EXCEPT !.returns = @ + 1]
                /\ UNCHANGED rlSleep
           ELSE IF waitTime > 0
           THEN /\ rlTokens' = tok
                /\ rlLastUpdate' = upd
                /\ rlSleep' = [rlSleep EXCEPT ![g] = rlNow + waitTime]
                /\ UNCHANGED rlHist
           ELSE /\ rlTokens' = tok - 1
                /\ rlLastUpdate' = rlNow
                /\ rlHist' = [rlHist EXCEPT !.returns = @ + 1]
                /\ UNCHANGED rlSleep
    /\ UNCHANGED <<rlRate, rlMaxTokens, rlNow>>
    /\ UNCHANGED <<syncVars, swVars, cacheVars, searchVars, restVars>>

\* Wait after time.Sleep: Lock, tokens--, lastUpdate = time.Now(), return
WaitWake(g) ==
    /\ rlSleep[g] # Nil
    /\ rlNow >= rlSleep[g]
    /\ rlTokens' = rlTokens - 1
    /\ rlLastUpdate' = rlNow
    /\ rlSleep' = [rlSleep EXCEPT ![g] = Nil]
    /\ rlHist' = [rlHist EXCEPT !.returns = @ + 1]
    /\ UNCHANGED <<rlRate, rlMaxTokens, rlNow>>
    /\ UNCHANGED <<syncVars, swVars, cacheVars, searchVars, restVars>>

SetRate(rate) ==
    LET r == IF rate < 1 THEN 1 ELSE rate
    IN  /\ rlRate' = r
        /\ rlMaxTokens' = r
        /\ rlTokens' = IF rlTokens > r THEN r ELSE rlTokens
        /\ rlHist' = [rlHist EXCEPT !.peak = Max(@, r)]
        /\ UNCHANGED <<rlLastUpdate, rlNow, rlSleep>>
        /\ UNCHANGED <<syncVars, swVars, cacheVars, searchVars, restVars>>

\* the clock of the limiter advances
LimiterTick ==
    /\ rlNow < MaxTick
    /\ rlNow' = rlNow + 1
    /\ UNCHANGED <<rlRate, rlTokens, rlMaxTokens, rlLastUpdate, rlSleep, rlHist>>
    /\ UNCHANGED <<syncVars, swVars, cacheVars, searchVars, restVars>>

NextLimiter ==
    \/ \E g \in Callers : WaitEnter(g)
    \/ \E g \in Callers : WaitWake(g)
    \/ \E rate \in RateInputs : SetRate(rate)
    \/ LimiterTick

(***************************************************************************)
(* The sliding-window limiter (RedisRateLimiter.Allow behind               *)
(* NewRedisRateLimiterMiddleware) for the requests of one client IP.  The  *)
(* commands of the pipeline reach the store one by one; commands of other  *)
(* handlers may be served in between.  The X-RateLimit headers and the     *)
(* read-only ZRangeWithScores behind them are left out.                    *)
(***************************************************************************)
\* handlers serving requests of the IP at the same time
MaxHandlers == 2
\* checks made in one behaviour
MaxChecks == 3
\* ticks in a second: the resolution of now.UnixNano()
TicksPerSec == 2
\* seconds in the window (time.Minute in the middleware)
WindowSecs == 2
\* last tick of the store's clock
MaxSwTick == 5

Handlers == 1..MaxHandlers

\* values of cfg.RequestsPerMinute
LimitInputs == {0, 1, 2}

\* cfg.RequestsPerMinute after the default of the middleware
RequestsPerMinute(n) == IF n <= 0 THEN 60 ELSE n

\* t.Unix() of a time in ticks
Unix(t) == t \div TicksPerSec

WindowTicks == WindowSecs * TicksPerSec

\* ZREMRANGEBYSCORE key 0 windowStart.Unix(): the score of a member is the
\* Unix() of the time that is its name
ZRemRangeByScore(zset, max) ==
    { m \in zset : ~(0 <= Unix(m) /\ Unix(m) <= max) }

\* what the handler answers once Allow returned without an error: 429 for
\* a denied check after an error would make the limiter fail closed
RespondFailClosed(err, allowed) == IF err \/ ~allowed THEN "429" ELSE "next"

\* what the handler answers once Allow returned
Respond(err, allowed) ==
    IF err THEN "next" ELSE IF ~allowed THEN "429" ELSE "next"

InitWindow ==
    \E n \in LimitInputs :
        /\ swLimit = RequestsPerMinute(n)
        /\ swZset = {}
        /\ swTTL = Nil
        /\ swNow = 0
        /\ swPc = [h \in Handlers |-> "idle"]
        /\ swReq = [h \in Handlers |-> [now |-> 0, count |-> 0]]
        /\ swLog = <<>>

\* no request is served
WindowOff ==
    /\ swLimit = 60
    /\ swZset = {}
    /\ swTTL = Nil
    /\ swNow = 0
    /\ swPc = [h \in Handlers |-> "idle"]
    /\ swReq = [h \in Handlers |-> [now |-> 0, count |-> 0]]
    /\ swLog = <<>>

InFlight == { h \in Handlers : swPc[h] # "idle" }

\* a request arrives: Allow reads time.Now() and queues its pipeline
AllowBegin(h) ==
    /\ swPc[h] = "idle"
    /\ Len(swLog) + Cardinality(InFlight) < MaxChecks
    /\ swReq' = [swReq EXCEPT ![h] = [now |-> swNow, count |-> 0]]
    /\ swPc' = [swPc EXCEPT ![h] = "zrem"]
    /\ UNCHANGED <<swLimit, swZset, swTTL, swNow, swLog>>
    /\ UNCHANGED <<syncVars, rlVars, cacheVars, searchVars, restVars>>

\* the store serves ZREMRANGEBYSCORE; an emptied key is deleted
PipeZRem(h) ==
    /\ swPc[h] = "zrem"
    /\ LET left == ZRemRangeByScore(swZset, Unix(swReq[h].now - WindowTicks))
       IN  /\ swZset' = left
           /\ swTTL' = IF left = {} THEN Nil ELSE swTTL
    /\ swPc' = [swPc EXCEPT ![h] = "zcard"]
    /\ UNCHANGED <<swLimit, swNow, swReq, swLog>>
    /\ UNCHANGED <<syncVars, rlVars, cacheVars, searchVars, restVars>>

\* the store serves ZCARD
PipeZCard(h) ==
    /\ swPc[h] = "zcard"
    /\ swReq' = [swReq EXCEPT ![h].count = Cardinality(swZset)]
    /\ swPc' = [swPc EXCEPT ![h] = "zadd"]
    /\ UNCHANGED <<swLimit, swZset, swTTL, swNow, swLog>>
    /\ UNCHANGED <<syncVars, rlVars, cacheVars, searchVars, restVars>>

\* the store serves ZADD: the member is now.UnixNano()
PipeZAdd(h) ==
    /\ swPc[h] = "zadd"
    /\ swZset' = swZset \cup {swReq[h].now}
    /\ swPc' = [swPc EXCEPT ![h] = "expire"]
    /\ UNCHANGED <<swLimit, swTTL, swNow, swReq, swLog>>
    /\ UNCHANGED <<syncVars, rlVars, cacheVars, searchVars, restVars>>

\* the store serves EXPIRE key window+1s
PipeExpire(h) ==
    /\ swPc[h] = "expire"
    /\ swTTL' = IF swZset = {} THEN Nil ELSE swNow + WindowTicks + TicksPerSec
    /\ swPc' = [swPc EXCEPT ![h] = "exec"]
    /\ UNCHANGED <<swLimit, swZset, swNow, swReq, swLog>>
    /\ UNCHANGED <<syncVars, rlVars, cacheVars, searchVars, restVars>>

\* Exec returned nil: Allow compares the count, the handler answers
AllowReturn(h) ==
    /\ swPc[h] = "exec"
    /\ LET allowed == swReq[h].count <= swLimit
       IN  swLog' = Append(swLog, [t       |-> swReq[h].now,
                                   err     |-> FALSE,
                                   allowed |-> allowed,
                                   status  |-> Respond(FALSE, allowed)])
    /\ swPc' = [swPc EXCEPT ![h] = "idle"]
    /\ UNCHANGED <<swLimit, swZset, swTTL, swNow, swReq>>
    /\ UNCHANGED <<syncVars, rlVars, cacheVars, searchVars, restVars>>

\* Exec returned an error after the store served some of the commands:
\* Allow returns (false, 0, zero time, err), the handler answers
AllowError(h) ==
    /\ swPc[h] \in {"zrem", "zcard", "zadd", "expire", "exec"}
    /\ swLog' = Append(swLog, [t       |-> swReq[h].now,
                               err     |-> TRUE,
                               allowed |-> FALSE,
                               status  |-> Respond(TRUE, FALSE)])
    /\ swPc' = [swPc EXCEPT ![h] = "idle"]
    /\ UNCHANGED <<swLimit, swZset, swTTL, swNow, swReq>>
    /\ UNCHANGED <<syncVars, rlVars, cacheVars, searchVars, restVars>>

\* the clock advances; a key whose time to live is over is deleted
WindowTick ==
    /\ swNow < MaxSwTick
    /\ swNow' = swNow + 1
    /\ IF swTTL # Nil /\ swNow + 1 >= swTTL
       THEN swZset' = {} /\ swTTL' = Nil
       ELSE UNCHANGED <<swZset, swTTL>>
    /\ UNCHANGED <<swLimit, swPc, swReq, swLog>>
    /\ UNCHANGED <<syncVars, rlVars, cacheVars, searchVars, restVars>>

NextWindow ==
    \/ \E h \in Handlers : AllowBegin(h)
    \/ \E h \in Handlers : PipeZRem(h)
    \/ \E h \in Handlers : PipeZCard(h)
    \/ \E h \in Handlers : PipeZAdd(h)
    \/ \E h \in Handlers : PipeExpire(h)
    \/ \E h \in Handlers : AllowReturn(h)
    \/ \E h \in Handlers : AllowError(h)
    \/ WindowTick

(***************************************************************************)
(* The local cache (cache.InMemoryCache).  Time is counted in ticks.  Get  *)
(* reads the entry under the read lock and, when the entry is expired,     *)
(* deletes the key under the write lock.                                   *)
(***************************************************************************)
\* last tick of the cache's clock
MaxCacheTick == 6

CacheKeys == {"k1", "k2"}

CacheValues == {"v1", "v2"}

\* the ttl arguments of Set, in ticks
TTLInputs == {-1, 0, 1, 3}

\* the defaultTTL arguments of NewInMemoryCache, in ticks
DefaultTTLInputs == {0, 2}

\* NewInMemoryCache(defaultTTL).defaultTTL
NewInMemoryCache(defaultTTL) ==
    IF defaultTTL <= 0 THEN TicksPerMinute ELSE defaultTTL

\* t.After(u) with t at or after u also counted
AfterOrAt(t, u) == t >= u

\* t.After(u)
After(t, u) == t > u

\* the entry Set stores
SetItem(value, ttl, defaultTTL, now) ==
    [value      |-> value,
     expiration |-> now + (IF ttl <= 0 THEN defaultTTL ELSE ttl)]

\* InMemoryCache.Set: items after the call
CacheSetItems(items, key, value, ttl, defaultTTL, now) ==
    [k \in DOMAIN items \cup {key} |->
        IF k = key THEN SetItem(value, ttl, defaultTTL, now) ELSE items[k]]

\* the first half of InMemoryCache.Get: it, ok := c.items[key]
CacheRead(items, key) ==
    IF key \in DOMAIN items
    THEN [ok |-> TRUE, value |-> items[key].value,
          expiration |-> items[key].expiration]
    ELSE [ok |-> FALSE, value |-> "nil", expiration |-> 0]

\* delete(c.items, key)
CacheDelete(items, key) == [k \in DOMAIN items \ {key} |-> items[k]]

\* InMemoryCache.Get with nothing running between its two halves:
\* [items, value, found]
CacheGetResult(items, key, now) ==
    LET it == CacheRead(items, key)
    IN  IF ~it.ok
        THEN [items |-> items, value |-> "nil", found |-> FALSE]
        ELSE IF After(now, it.expiration)
        THEN [items |-> CacheDelete(items, key), value |-> "nil", found |-> FALSE]
        ELSE [items |-> items, value |-> it.value, found |-> TRUE]

NoSet == [set |-> FALSE, value |-> "nil", at |-> 0, ttl |-> 0]

NoGet == [key |-> "", value |-> "nil", found |-> FALSE]

InitCache ==
    \E d \in DefaultTTLInputs :
        /\ cItems = << >>
        /\ cDefault = NewInMemoryCache(d)
        /\ cNow = 0
        /\ cLast = [k \in CacheKeys |-> NoSet]
        /\ cGot = NoGet

\* no local cache is in use
CacheOff ==
    /\ cItems = << >>
    /\ cDefault = TicksPerMinute
    /\ cNow = 0
    /\ cLast = [k \in CacheKeys |-> NoSet]
    /\ cGot = NoGet

CacheSet(key, value, ttl) ==
    /\ cItems' = CacheSetItems(cItems, key, value, ttl, cDefault, cNow)
    /\ cLast' = [cLast EXCEPT ![key] =
                    [set |-> TRUE, value |-> value, at |-> cNow, ttl |-> ttl]]
    /\ UNCHANGED <<cDefault, cNow, cGot>>
    /\ UNCHANGED <<syncVars, rlVars, swVars, searchVars, restVars>>

CacheGet(key) ==
    /\ LET r == CacheGetResult(cItems, key, cNow)
       IN  /\ cItems' = r.items
           /\ cGot' = [key |-> key, value |-> r.value, found |-> r.found]
    /\ UNCHANGED <<cDefault, cNow, cLast>>
    /\ UNCHANGED <<syncVars, rlVars, swVars, searchVars, restVars>>

\* InMemoryCache.cleanup, run by the background goroutine
CacheCleanup ==
    /\ \E k \in DOMAIN cItems : After(cNow, cItems[k].expiration)
    /\ cItems' = [k \in { j \in DOMAIN cItems :
                            ~After(cNow, cItems[j].expiration) } |-> cItems[k]]
    /\ UNCHANGED <<cDefault, cNow, cLast, cGot>>
    /\ UNCHANGED <<syncVars, rlVars, swVars, searchVars, restVars>>

\* the clock of the cache advances
CacheTick ==
    /\ cNow < MaxCacheTick
    /\ cNow' = cNow + 1
    /\ UNCHANGED <<cItems, cDefault, cLast, cGot>>
    /\ UNCHANGED <<syncVars, rlVars, swVars, searchVars, restVars>>

NextCache ==
    \/ \E k \in CacheKeys, v \in CacheValues, ttl \in TTLInputs : CacheSet(k, v, ttl)
    \/ \E k \in CacheKeys : CacheGet(k)
    \/ CacheCleanup
    \/ CacheTick

(***************************************************************************)
(* Search: the request model (model.SearchRequest)                         *)
(***************************************************************************)
\* bits of a Go int in the model
IntBits == 16

\* 2^n
RECURSIVE Pow2(_)
Pow2(n) == IF n = 0 THEN 1 ELSE 2 * Pow2(n - 1)

MaxInt == Pow2(IntBits - 1) - 1

\* the value of an int expression after overflow
WrapInt(n) == ((n + Pow2(IntBits - 1)) % Pow2(IntBits)) - Pow2(IntBits - 1)

\* a SearchRequest; Type "nil" and ProviderID, StartDate, EndDate Nil are
\* the nil pointers, dates are day numbers
Request(q, t, prov, sd, ed, page, pp, sortBy, sortOrder) ==
    [Query |-> q, Type |-> t, ProviderID |-> prov,
     StartDate |-> sd, EndDate |-> ed,
     Page |-> page, PerPage |-> pp,
     SortBy |-> sortBy, SortOrder |-> sortOrder]

\* a Validate whose valid sort fields include id
ValidateWithId(r) ==
    LET pp == IF r.PerPage < 1 THEN 10
              ELSE IF r.PerPage > 100 THEN 100 ELSE r.PerPage
        swap == /\ r.StartDate # Nil
                /\ r.EndDate # Nil
                /\ r.EndDate < r.StartDate
    IN  [r EXCEPT
            !.Page = IF r.Page < 1 THEN 1 ELSE r.Page,
            !.PerPage = pp,
            !.SortBy = IF r.SortBy \in {"score", "published_at", "title", "id"}
                       THEN r.SortBy ELSE "score",
            !.SortOrder = IF r.SortOrder \in {"asc", "desc"}
                          THEN r.SortOrder ELSE "desc",
            !.StartDate = IF swap THEN r.EndDate ELSE r.StartDate,
            !.EndDate = IF swap THEN r.StartDate ELSE r.EndDate]

\* SearchRequest.Validate
Validate(r) ==
    LET pp == IF r.PerPage < 1 THEN 10
              ELSE IF r.PerPage > 100 THEN 100 ELSE r.PerPage
        swap == /\ r.StartDate # Nil
                /\ r.EndDate # Nil
                /\ r.EndDate < r.StartDate
    IN  [r EXCEPT
            !.Page = IF r.Page < 1 THEN 1 ELSE r.Page,
            !.PerPage = pp,
            !.SortBy = IF r.SortBy \in {"score", "published_at", "title"}
                       THEN r.SortBy ELSE "score",
            !.SortOrder = IF r.SortOrder \in {"asc", "desc"}
                          THEN r.SortOrder ELSE "desc",
            !.StartDate = IF swap THEN r.EndDate ELSE r.StartDate,
            !.EndDate = IF swap THEN r.StartDate ELSE r.EndDate]

\* SearchRequest.GetOffset
GetOffset(r) == WrapInt(WrapInt(r.Page - 1) * r.PerPage)

\* SearchResponse.CalculateTotalPages
CalculateTotalPages(total, perPage) ==
    IF total < 0 THEN 0
    ELSE IF perPage > 0 THEN (total + perPage - 1) \div perPage ELSE 0

\* fmt's %v of a *time.Time
FormatDate(d) == IF d = Nil THEN "<nil>" ELSE ToString(d)

\* buildSearchCacheKey
buildSearchCacheKey(r) ==
    "q=" \o r.Query
    \o "|t=" \o (IF r.Type = "nil" THEN "" ELSE r.Type)
    \o "|p=" \o ToString(r.Page)
    \o "|prov=" \o ToString(IF r.ProviderID = Nil THEN 0 ELSE r.ProviderID)
    \o "|sd=" \o FormatDate(r.StartDate)
    \o "|ed=" \o FormatDate(r.EndDate)
    \o "|sort=" \o r.SortBy
    \o "|ord=" \o r.SortOrder
    \o "|pp=" \o ToString(r.PerPage)

(***************************************************************************)
(* Search: the queries of ContentRepository.Search over the contents table *)
(***************************************************************************)
\* a stored row of the corpus
CorpusRow(prov, ext, title, type, published, score) ==
    [provider_id |-> prov, external_id |-> ext, title |-> title,
     type |-> type, views |-> 0, likes |-> 0, reading_time |-> Nil,
     reactions |-> 0, published_at |-> published, score |-> score]

\* the contents table the searches run against: rows 1 and 3 share score
\* and title, rows 1, 2 and 4 share published_at
Corpus ==
    << CorpusRow(1, "a", "go intro", "video", 97, 90000),
       CorpusRow(1, "b", "db intro", "video", 97, 50000),
       CorpusRow(2, "a", "go intro", "article", 55, 90000),
       CorpusRow(2, "b", "go tips", "article", 97, 20000) >>

CorpusTags == { <<1, "go">>, <<1, "db">>, <<3, "go">> }

\* place of a title in the collation of the title column
TitleRank(title) ==
    CASE title = "db intro" -> 1
      [] title = "go intro" -> 2
      [] title = "go tips"  -> 3
      [] OTHER              -> 0

\* title LIKE %q% (the keywords of the model are shorter than
\* minFullTextLength)
TitleLike(title, q) ==
    \/ q = ""
    \/ q = "go" /\ title \in {"go intro", "go tips"}
    \/ q = "intro" /\ title \in {"go intro", "db intro"}

\* the WHERE clause Search builds
Matches(row, r) ==
    /\ r.Query # "" => TitleLike(row.title, r.Query)
    /\ r.Type # "nil" => row.type = r.Type
    /\ r.ProviderID # Nil => row.provider_id = r.ProviderID
    /\ r.StartDate # Nil => row.published_at >= r.StartDate
    /\ r.EndDate # Nil => row.published_at <= r.EndDate

MatchIds(tbl, r) == { i \in 1..Len(tbl) : Matches(tbl[i], r) }

\* the sort column Search puts into ORDER BY
RepoSortBy(sortBy) ==
    IF sortBy \in {"score", "published_at", "title", "id"} THEN sortBy ELSE "score"

\* strings.ToUpper of the sort order, and its whitelist
RepoSortOrder(sortOrder) ==
    IF sortOrder \in {"asc", "ASC"} THEN "ASC" ELSE "DESC"

SortKey(tbl, i, sortBy) ==
    CASE sortBy = "score"        -> tbl[i].score
      [] sortBy = "published_at" -> tbl[i].published_at
      [] sortBy = "title"        -> TitleRank(tbl[i].title)
      [] OTHER                   -> i

\* the first term of the ORDER BY clause: sortBy sortOrder
OrderBeforeNoTie(tbl, i, j, sortBy, sortOrder) ==
    LET a == SortKey(tbl, i, sortBy)
        b == SortKey(tbl, j, sortBy)
    IN  IF sortOrder = "ASC" THEN a < b ELSE a > b

\* an ORDER BY that compares the sort column only
OrderBeforeKeyOnly(tbl, i, j, sortBy, sortOrder) ==
    OrderBeforeNoTie(tbl, i, j, sortBy, sortOrder)

\* ORDER BY sortBy sortOrder, id DESC: row i comes before row j
OrderBefore(tbl, i, j, sortBy, sortOrder) ==
    LET a == SortKey(tbl, i, sortBy)
        b == SortKey(tbl, j, sortBy)
    IN  \/ IF sortOrder = "ASC" THEN a < b ELSE a > b
        \/ a = b /\ i > j

\* the ids of a set of rows in the order of the ORDER BY clause
RECURSIVE OrderRows(_, _, _, _)
OrderRows(tbl, ids, sortBy, sortOrder) ==
    IF ids = {} THEN << >>
    ELSE LET first == CHOOSE i \in ids :
                        \A j \in ids \ {i} : ~OrderBefore(tbl, j, i, sortBy, sortOrder)
         IN  <<first>> \o OrderRows(tbl, ids \ {first}, sortBy, sortOrder)

\* LIMIT limit OFFSET offset of a sequence
LimitOffset(seq, limit, offset) ==
    IF offset >= Len(seq) THEN << >>
    ELSE SubSeq(seq, offset + 1,
                IF offset + limit > Len(seq) THEN Len(seq) ELSE offset + limit)

\* the ids the page query returns
PageIds(tbl, r) ==
    LimitOffset(OrderRows(tbl, MatchIds(tbl, r),
                          RepoSortBy(r.SortBy), RepoSortOrder(r.SortOrder)),
                r.PerPage, GetOffset(r))

\* place of a tag in the collation of the tag column
TagRank(tag) == IF tag = "db" THEN 1 ELSE 2

\* the tags LoadTagsBatch puts on a row: ORDER BY content_id, tag
RECURSIVE SortedTags(_)
SortedTags(set) ==
    IF set = {} THEN << >>
    ELSE LET t == CHOOSE x \in set : \A y \in set : TagRank(x) <= TagRank(y)
         IN  <<t>> \o SortedTags(set \ {t})

(***************************************************************************)
(* Search: ContentRepository.Search and SearchService.Search.  Times are   *)
(* seconds since the call of Search; the caller's context has no deadline. *)
(***************************************************************************)
\* the timeout of the count query
CountTimeout == 10

\* the queryTimeout NewSearchService falls back to
DefaultQueryTimeout == 15

QueryTimeoutInputs == {0, 5, 30}

CacheTTLInputs == {0, 2}

\* how the calls of one Search turn out: the cache calls fail or not, the
\* count query takes countTime and fails or not, the page query takes
\* pageTime, fails at QueryContext ("query") or in rows.Scan ("scan") or
\* not at all, an expiring deadline reaches it in QueryContext ("query") or
\* while the rows are read ("rows"), LoadTagsBatch fails or not
Outcome(get, set, countTime, countErr, pageTime, pageErr, dlAt, tg) ==
    [get |-> get, set |-> set, countTime |-> countTime, countErr |-> countErr,
     pageTime |-> pageTime, pageErr |-> pageErr, dlAt |-> dlAt, tags |-> tg]

\* outcomes of the storage calls, the cache calls succeeding: of the count
\* query, of the page query, of both being slow, of the tag load
StoreOutcomes ==
    { Outcome("ok", "ok", ct, ce, 1, "none", "query", "ok") :
        ct \in {1, 12}, ce \in BOOLEAN }
    \cup { Outcome("ok", "ok", 1, FALSE, pt, pe, dl, "ok") :
            pt \in {1, 8}, pe \in {"none", "query", "scan"},
            dl \in {"query", "rows"} }
    \cup { Outcome("ok", "ok", 12, FALSE, 8, "none", dl, "ok") :
            dl \in {"query", "rows"} }
    \cup { Outcome("ok", "ok", ct, FALSE, 1, "none", "query", "fail") :
            ct \in {1, 12} }

\* outcomes of the cache calls, the storage calls succeeding
CacheOutcomes ==
    { Outcome(g, st, 1, FALSE, 1, "none", "query", "ok") :
        g \in {"ok", "fail"}, st \in {"ok", "fail"} }

Min(a, b) == IF a < b THEN a ELSE b

\* a count query whose timeout fails the search like its other errors
CountFailsAlways(countTimedOut, countErr) == countTimedOut \/ countErr

\* the count query fails the search: it returned an error and its context
\* has not timed out
CountFails(countTimedOut, countErr) == ~countTimedOut /\ countErr

\* ContentRepository.Search under a context that expires at deadline:
\* the rows, the total, the error (none, an AppError with its code, or a
\* raw error), and the time it returns
RepoSearch(tbl, r, deadline, out) ==
    LET countDeadline == Min(CountTimeout, deadline)
        countTimedOut == out.countTime > countDeadline
        countFailed == CountFails(countTimedOut, out.countErr)
        t1 == IF countTimedOut THEN countDeadline ELSE out.countTime
        total == IF countTimedOut THEN -1 ELSE Cardinality(MatchIds(tbl, r))
        expired == t1 >= deadline
        inPage == ~expired /\ t1 + out.pageTime > deadline
        none == [ids |-> << >>, total |-> 0]
        facts == [countTimedOut |-> countTimedOut, countFailed |-> countFailed,
                  pageFailed |-> FALSE, deadlineAt |-> "none",
                  offset |-> GetOffset(r)]
    IN  IF countFailed
        THEN none @@ [err |-> "DATABASE_ERROR", app |-> TRUE, at |-> t1] @@ facts
        ELSE IF expired
        THEN none @@ [err |-> "DATABASE_ERROR", app |-> TRUE, at |-> t1]
                  @@ [facts EXCEPT !.deadlineAt = "query"]
        ELSE IF inPage /\ out.dlAt = "query"
        THEN none @@ [err |-> "DATABASE_ERROR", app |-> TRUE, at |-> deadline]
                  @@ [facts EXCEPT !.deadlineAt = "query"]
        ELSE IF inPage
        THEN [ids |-> << >>, total |-> total,
              err |-> "context deadline exceeded", app |-> FALSE, at |-> deadline]
                  @@ [facts EXCEPT !.deadlineAt = "rows"]
        ELSE IF out.pageErr = "query" \/ GetOffset(r) < 0
        THEN none @@ [err |-> "DATABASE_ERROR", app |-> TRUE, at |-> t1 + out.pageTime]
                  @@ [facts EXCEPT !.pageFailed = TRUE]
        ELSE IF out.pageErr = "scan"
        THEN none @@ [err |-> "failed to scan content", app |-> FALSE,
                      at |-> t1 + out.pageTime]
                  @@ [facts EXCEPT !.pageFailed = TRUE]
        ELSE [ids |-> PageIds(tbl, r), total |-> total,
              err |-> "nil", app |-> FALSE, at |-> t1 + out.pageTime] @@ facts

\* the code of the error SearchService.Search returns for the error of the
\* repository
SearchError(res, deadline) ==
    IF res.app THEN res.err
    ELSE IF res.at >= deadline THEN "QUERY_TIMEOUT"
    ELSE "SERVICE_ERROR"

\* the rows of a response: LoadTagsBatch sets the tags of every row, to an
\* empty list for a row without tags; when it fails the tags stay nil
ResultRows(ids, tagTbl, tagsOk) ==
    [n \in 1..Len(ids) |->
        [id |-> ids[n],
         tags |-> IF tagsOk THEN SortedTags(TagsOf(tagTbl, ids[n])) ELSE << >>,
         tagsNil |-> ~tagsOk]]

\* the SearchResponse Search builds
Response(ids, total, r, tagTbl, tagsOk) ==
    [results |-> ResultRows(ids, tagTbl, tagsOk),
     total |-> total, page |-> r.Page, per_page |-> r.PerPage,
     total_pages |-> CalculateTotalPages(total, r.PerPage)]

NoResponse ==
    [results |-> << >>, total |-> 0, page |-> 0, per_page |-> 0, total_pages |-> 0]

\* json.Marshal of a response: "tags" is omitted for nil and for empty tags
Marshal(resp) ==
    [results |-> [n \in 1..Len(resp.results) |->
                    IF resp.results[n].tags = << >>
                    THEN [id |-> resp.results[n].id]
                    ELSE [id |-> resp.results[n].id, tags |-> resp.results[n].tags]],
     total |-> resp.total, page |-> resp.page, per_page |-> resp.per_page,
     total_pages |-> resp.total_pages]

\* json.Unmarshal into a SearchResponse
Unmarshal(bytes) ==
    [results |-> [n \in 1..Len(bytes.results) |->
                    IF "tags" \in DOMAIN bytes.results[n]
                    THEN [id |-> bytes.results[n].id,
                          tags |-> bytes.results[n].tags, tagsNil |-> FALSE]
                    ELSE [id |-> bytes.results[n].id,
                          tags |-> << >>, tagsNil |-> TRUE]],
     total |-> bytes.total, page |-> bytes.page, per_page |-> bytes.per_page,
     total_pages |-> bytes.total_pages]

\* a failed remote get that answers with the stored entry
SearchCacheGetStale(kind, items, key, now, out) ==
    IF kind = "none" THEN [items |-> items, value |-> "nil", found |-> FALSE]
    ELSE IF kind = "local" THEN CacheGetResult(items, key, now)
    ELSE IF key \in DOMAIN items /\ now < items[key].expiration
         THEN [items |-> items, value |-> items[key].value, found |-> TRUE]
         ELSE [items |-> items, value |-> "nil", found |-> FALSE]

\* s.cache.Get(key) of Search: no cache, InMemoryCache.Get, or
\* RedisCacheWrapper.Get, where a failed GET and an absent or expired key
\* are both a miss
SearchCacheGet(kind, items, key, now, out) ==
    IF kind = "none" THEN [items |-> items, value |-> "nil", found |-> FALSE]
    ELSE IF kind = "local" THEN CacheGetResult(items, key, now)
    ELSE IF out.get = "ok" /\ key \in DOMAIN items /\ now < items[key].expiration
         THEN [items |-> items, value |-> items[key].value, found |-> TRUE]
         ELSE [items |-> items, value |-> "nil", found |-> FALSE]

\* s.cache.Set(key, bytes, cacheTTL) of Search: InMemoryCache.Set, or
\* RedisCacheWrapper.Set, whose error is dropped
SearchCacheSet(kind, items, key, value, ttl, defaultTTL, now, out) ==
    IF kind = "none" THEN items
    ELSE IF kind = "local" THEN CacheSetItems(items, key, value, ttl, defaultTTL, now)
    ELSE IF out.set = "ok"
         THEN CacheSetItems(items, key, value, ttl, TicksPerMinute, now)
         ELSE items

\* NewSearchService
NewSearchService(kind, cacheTTL, queryTimeout) ==
    [cache |-> kind,
     cacheTTL |-> IF cacheTTL <= 0 THEN TicksPerMinute ELSE cacheTTL,
     queryTimeout |-> IF queryTimeout <= 0 THEN DefaultQueryTimeout ELSE queryTimeout]

\* what SearchService.Search does for the raw request under the outcomes
\* out: the validated request, the key, the cache after the call, and what
\* it returns
SearchResult(cfg, raw, out, tbl, tagTbl, items, defaultTTL, now) ==
    LET r == Validate(raw)
        key == buildSearchCacheKey(r)
        got == SearchCacheGet(cfg.cache, items, key, now, out)
        res == RepoSearch(tbl, r, cfg.queryTimeout, out)
        tagsOk == out.tags = "ok"
        resp == Response(res.ids, res.total, r, tagTbl, tagsOk \/ Len(res.ids) = 0)
        base == [req |-> r, key |-> key, hit |-> FALSE, for |-> r, repo |-> res,
                 tagsFailed |-> FALSE]
    IN  IF got.found
        THEN [base EXCEPT !.hit = TRUE, !.for = got.value.req]
                @@ [items |-> got.items, code |-> "ok",
                    resp |-> Unmarshal(got.value.bytes)]
        ELSE IF res.err # "nil"
        THEN base @@ [items |-> got.items,
                      code |-> SearchError(res, cfg.queryTimeout),
                      resp |-> NoResponse]
        ELSE [base EXCEPT !.tagsFailed = (~tagsOk /\ Len(res.ids) > 0)]
                @@ [items |-> SearchCacheSet(cfg.cache, got.items, key,
                                             [bytes |-> Marshal(resp), req |-> r],
                                             cfg.cacheTTL, defaultTTL, now, out),
                    code |-> "ok", resp |-> resp]

\* the request bound by the handler, not yet served
NoSearch == [phase |-> "idle"]

\* SearchHandler.Search binds the query parameters
BindQuery(raw) ==
    /\ sRes.phase # "bound"
    /\ sRes' = [phase |-> "bound", raw |-> raw]
    /\ UNCHANGED sCfg
    /\ UNCHANGED <<syncVars, rlVars, swVars, cacheVars, restVars>>

\* SearchService.Search for the bound request
Search(out) ==
    /\ sRes.phase = "bound"
    /\ LET s == SearchResult(sCfg, sRes.raw, out, contents, tags,
                             cItems, cDefault, cNow)
       IN  /\ cItems' = s.items
           /\ sRes' = [phase |-> "done", raw |-> sRes.raw, out |-> out,
                       req |-> s.req, key |-> s.key, hit |-> s.hit,
                       for |-> s.for, repo |-> s.repo,
                       tagsFailed |-> s.tagsFailed,
                       code |-> s.code, resp |-> s.resp]
    /\ UNCHANGED <<sCfg, cDefault, cNow, cLast, cGot>>
    /\ UNCHANGED <<syncVars, rlVars, swVars, restVars>>

\* the requests of the model: pages and page sizes, sort fields and
\* directions, filters, date bounds
PagingRequests ==
    { Request("", "nil", Nil, Nil, Nil, pg, pp, "score", "desc") :
        pg \in {-1, 0, 1, 2, 3, MaxInt}, pp \in {-5, 0, 1, 2, 3, 101} }

SortRequests ==
    { Request("", "nil", Nil, Nil, Nil, pg, 2, sb, so) :
        pg \in {1, 2},
        sb \in {"", "score", "published_at", "title", "id", "views"},
        so \in {"", "asc", "desc", "ASC", "up"} }

FilterRequests ==
    { Request(q, t, pr, Nil, Nil, 1, 0, "score", "desc") :
        q \in {"", "go", "intro"}, t \in {"nil", "video", "article"},
        pr \in {Nil, 0, 1, 2} }

DateRequests ==
    { Request("", "nil", Nil, d[1], d[2], 1, 0, "published_at", "asc") :
        d \in { <<60, Nil>>, <<Nil, 60>>, <<98, 50>>, <<50, 98>>, <<97, 97>> } }

SearchRequests == PagingRequests \cup SortRequests \cup FilterRequests \cup DateRequests

\* the requests of the cached searches
CachedRequests ==
    { Request("go", "nil", pr, Nil, Nil, 1, 2, "score", "desc") :
        pr \in {Nil, 0, 1} }

\* the contents and tags tables hold the corpus, no sync is running
CorpusLoaded ==
    /\ provRows = {}
    /\ lastFetched = [p \in Providers |-> 0]
    /\ contents = Corpus
    /\ tags = CorpusTags
    /\ clock = 0
    /\ runs = 0
    /\ phase = "idle"
    /\ registered = {}
    /\ limTokens = [p \in Providers |-> 0]
    /\ wpc = [p \in Providers |-> "idle"]
    /\ wtodo = [p \in Providers |-> <<>>]
    /\ werr = [p \in Providers |-> "none"]
    /\ errChan = <<>>
    /\ errCap = 0
    /\ faResult = "none"
    /\ recalcTodo = <<>>
    /\ hist = HistInit

\* a search service without a cache
InitSearch ==
    /\ \E q \in QueryTimeoutInputs : sCfg = NewSearchService("none", 0, q)
    /\ sRes = NoSearch

\* a search service with the cache initializeCache builds
InitSearchCache ==
    /\ \E kind \in {"local", "remote"}, ttl \in CacheTTLInputs :
         /\ sCfg = NewSearchService(kind, ttl, 0)
         /\ cDefault = NewInMemoryCache(ttl)
    /\ sRes = NoSearch
    /\ cItems = << >>
    /\ cNow = 0
    /\ cLast = [k \in CacheKeys |-> NoSet]
    /\ cGot = NoGet

NextSearch ==
    \/ \E raw \in SearchRequests : BindQuery(raw)
    \/ \E out \in StoreOutcomes : Search(out)

NextSearchCache ==
    \/ \E raw \in CachedRequests : BindQuery(raw)
    \/ \E out \in CacheOutcomes : Search(out)
    \/ CacheCleanup
    \/ CacheTick

\* no search is served
SearchOff ==
    /\ sCfg = NewSearchService("none", 0, 0)
    /\ sRes = NoSearch

\* no function has been called
NoCall == [fn |-> "none"]

\* a subsystem that is not part of the specification at hand
Off == [on |-> FALSE]

RestOff ==
    /\ call = NoCall
    /\ bulk = Off
    /\ ups = Off
    /\ cx = Off
    /\ tx = Off
    /\ cg = Off
    /\ fa = Off

(***************************************************************************)
(* Errors and the error handler of the API.  A text is a sequence of the   *)
(* pieces it is formatted from.                                            *)
(***************************************************************************)
\* an error of the standard library or of a driver
RawError(text) == [kind |-> "raw", text |-> text]

\* NewAppError
NewAppError(code, message, statusCode) ==
    [kind |-> "app", Code |-> code, Message |-> message, Details |-> << >>,
     StatusCode |-> statusCode, Err |-> << >>]

\* NewAppErrorWithDetails
NewAppErrorWithDetails(code, message, details, statusCode) ==
    [kind |-> "app", Code |-> code, Message |-> message, Details |-> details,
     StatusCode |-> statusCode, Err |-> << >>]

\* NewAppErrorWithError: Details is err.Error()
NewAppErrorWithError(code, message, statusCode, err) ==
    [kind |-> "app", Code |-> code, Message |-> message, Details |-> err.text,
     StatusCode |-> statusCode, Err |-> err.text]

NewValidationErrorWithDetails(message, details) ==
    NewAppErrorWithDetails("VALIDATION_ERROR", message, details, 400)

NewInvalidIDError(resource) ==
    NewAppError("INVALID_ID", <<"Invalid ", resource, " ID">>, 400)

NewNotFoundError(resource) ==
    NewAppError("NOT_FOUND", <<resource, " not found">>, 404)

NewContentNotFoundErrorWithID(id) ==
    NewAppErrorWithDetails("CONTENT_NOT_FOUND", <<"Content not found">>,
                           <<"No content found with ID: ", ToString(id)>>, 404)

NewRequestTimeoutError == NewAppError("REQUEST_TIMEOUT", <<"Request timeout">>, 408)

NewRequestTimeoutErrorWithDuration(duration) ==
    NewAppErrorWithDetails("REQUEST_TIMEOUT", <<"Request timeout">>,
        <<"The request exceeded the maximum allowed time (", duration, ")">>, 408)

NewQueryTimeoutError(operation) ==
    NewAppErrorWithDetails("QUERY_TIMEOUT", <<"Query timeout: ", operation>>,
        <<"The ", operation, " operation exceeded the maximum allowed time">>, 504)

NewInternalErrorWithError(message, err) ==
    NewAppErrorWithError("INTERNAL_ERROR", message, 500, err)

NewDatabaseError(operation, err) ==
    NewAppErrorWithError("DATABASE_ERROR",
                         <<"Database operation failed: ", operation>>, 500, err)

NewServiceError(operation, err) ==
    NewAppErrorWithError("SERVICE_ERROR",
                         <<"Service operation failed: ", operation>>, 500, err)

ErrNoRows == RawError(<<"sql: no rows in result set">>)

DeadlineExceeded == RawError(<<"context deadline exceeded">>)

\* errors of the driver and of the handlers' own calls
DriverErrors ==
    { RawError(<<"dial tcp 10.0.0.5:3306: connect: connection refused">>),
      RawError(<<"Error 1064: You have an error in your SQL syntax near '-20'">>),
      RawError(<<"failed to scan content: ", "sql: Scan error on column index 3">>),
      DeadlineExceeded, ErrNoRows }

DatabaseOperations ==
    {"get content by id", "count results", "search content",
     "get statistics", "get provider statistics", "get all providers"}

\* the errors the handlers and the services hand to the middleware
HandledErrors ==
    { NewDatabaseError(op, e) : op \in DatabaseOperations, e \in DriverErrors }
    \cup { NewServiceError(op, e) : op \in {"search", "search content"},
                                    e \in DriverErrors }
    \cup { NewQueryTimeoutError("search"), NewInvalidIDError("content"),
           NewRequestTimeoutErrorWithDuration("5s"), NewRequestTimeoutError,
           NewValidationErrorWithDetails(<<"Invalid request parameters">>,
               <<"strconv.ParseInt: parsing \"x\": invalid syntax">>) }
    \cup { NewContentNotFoundErrorWithID(id) : id \in 1..3 }
    \cup DriverErrors

TraceIDs == {"", "4f2a", "9c1d"}

\* the codes whose details the handler shows
ValidationCodes == {"VALIDATION_ERROR", "INVALID_INPUT", "INVALID_ID"}

\* logError
logError(appErr, traceID) ==
    <<"[ERROR] trace=", traceID, " | code=", appErr.Code,
      " | status=", ToString(appErr.StatusCode), " | message=">>
    \o appErr.Message
    \o (IF appErr.Details # << >> THEN <<" | details=">> \o appErr.Details ELSE << >>)
    \o (IF appErr.Err # << >> THEN <<" | underlying_error=">> \o appErr.Err ELSE << >>)

\* an error response that shows the details of every error
errorResponseWithDetails(appErr) ==
    IF appErr.Details # << >>
    THEN [code |-> appErr.Code, message |-> appErr.Message, details |-> appErr.Details]
    ELSE [code |-> appErr.Code, message |-> appErr.Message]

\* the errorResponse handleError builds for an AppError
errorResponse(appErr) ==
    IF appErr.Details # << >> /\ appErr.Code \in ValidationCodes
    THEN [code |-> appErr.Code, message |-> appErr.Message, details |-> appErr.Details]
    ELSE [code |-> appErr.Code, message |-> appErr.Message]

\* handleError: the status and the body it writes, the line it logs
handleError(err, traceID) ==
    IF err.kind = "app"
    THEN [status |-> err.StatusCode, code |-> err.Code,
          body |-> [error |-> errorResponse(err), trace_id |-> traceID],
          log |-> logError(err, traceID)]
    ELSE IF err = ErrNoRows
    THEN LET appErr == NewNotFoundError("Resource")
         IN  [status |-> appErr.StatusCode, code |-> appErr.Code,
              body |-> [error |-> [code |-> appErr.Code, message |-> appErr.Message],
                        trace_id |-> traceID],
              log |-> logError(appErr, traceID)]
    ELSE IF err = DeadlineExceeded
    THEN LET appErr == NewRequestTimeoutError
         IN  [status |-> appErr.StatusCode, code |-> appErr.Code,
              body |-> [error |-> [code |-> appErr.Code, message |-> appErr.Message],
                        trace_id |-> traceID],
              log |-> logError(appErr, traceID)]
    ELSE LET appErr == NewInternalErrorWithError(<<"An unexpected error occurred">>, err)
         IN  [status |-> appErr.StatusCode, code |-> appErr.Code,
              body |-> [error |-> [code |-> appErr.Code,
                                   message |-> <<"An error occurred while processing your request. Please try again later.">>],
                        trace_id |-> traceID],
              log |-> logError(appErr, traceID)]

\* ErrorHandlerMiddleware handles the last error of a request
HandleErr(err, traceID) ==
    /\ call' = [fn |-> "handleError", err |-> err, traceID |-> traceID,
                out |-> handleError(err, traceID)]
    /\ UNCHANGED <<syncVars, rlVars, swVars, cacheVars, searchVars>>
    /\ UNCHANGED <<bulk, ups, cx, tx, cg, fa>>

NextErrors == \E err \in HandledErrors, t \in TraceIDs : HandleErr(err, t)

(***************************************************************************)
(* Scoring of one content item at a given time                             *)
(***************************************************************************)
\* int(age.Hours() / 24): the conversion to int truncates toward zero
AgeInDays(hours) == IF hours >= 0 THEN hours \div 24 ELSE -((-hours) \div 24)

\* the ages, in hours, of the scored items: around every step of the
\* freshness score, and a publication date in the future
AgeHours ==
    {-30, 0, 3 * 24, 7 * 24 + 23, 8 * 24, 30 * 24 + 23, 31 * 24, 45 * 24,
     90 * 24 + 23, 91 * 24}

\* the items that are scored
ScoredItems ==
    { Item("v", "T", "video", v, l, Nil, 0, 0, << >>) :
        v \in {0, 3, 1000, 50000}, l \in {0, 1, 100, 2500} }
    \cup { Item("a", "T", "article", 0, 0, rt, r, 0, << >>) :
            rt \in {Nil, 0, 3, 10}, r \in {0, 7, 500} }

\* CalculateFinalScore of an item published hours ago, with its steps
ScoreSteps(c, hours) ==
    LET now == c.PublishedAt + AgeInDays(hours)
    IN  [base |-> CalculateBaseScore(c),
         weighted |-> (CalculateBaseScore(c) * GetContentTypeCoefficient(c.Type)) \div 10,
         freshness |-> CalculateFreshnessScore(c.PublishedAt, now),
         engagement |-> CalculateEngagementScore(c),
         final |-> CalculateFinalScore(c, now)]

\* a call of CalculateFinalScore
Score(c, hours) ==
    /\ call' = [fn |-> "CalculateFinalScore", c |-> c, hours |-> hours,
                out |-> ScoreSteps(c, hours)]
    /\ UNCHANGED <<syncVars, rlVars, swVars, cacheVars, searchVars>>
    /\ UNCHANGED <<bulk, ups, cx, tx, cg, fa>>

NextScore == \E c \in ScoredItems, h \in AgeHours : Score(c, h)

(***************************************************************************)
(* Bulk recomputation of the scores of a stored corpus                     *)
(***************************************************************************)
\* a contents table with n1 videos of provider 1, then n2 of provider 2,
\* then n11 of provider 11, none of them scored yet
BulkTable(n1, n2, n11) ==
    [i \in 1..(n1 + n2 + n11) |->
        [provider_id |-> IF i <= n1 THEN 1 ELSE IF i <= n1 + n2 THEN 2 ELSE 11,
         external_id |-> ToString(i), title |-> "T", type |-> "video",
         views |-> 1000, likes |-> 100, reading_time |-> Nil, reactions |-> 0,
         published_at |-> 97, score |-> 0]]

\* the sizes of the corpora: below, at and above one batch
BulkSizes == {1, BatchSize, BatchSize + 1}

\* the ids whose UpdateScore can fail
FailCandidates == {1, BatchSize + 1}

InitBulk ==
    /\ \E n1 \in BulkSizes : contents = BulkTable(n1, 1, 1)
    /\ provRows = {}
    /\ lastFetched = [p \in Providers |-> 0]
    /\ tags = {}
    /\ clock = 0
    /\ runs = 0
    /\ phase = "idle"
    /\ registered = {}
    /\ limTokens = [p \in Providers |-> 0]
    /\ wpc = [p \in Providers |-> "idle"]
    /\ wtodo = [p \in Providers |-> <<>>]
    /\ werr = [p \in Providers |-> "none"]
    /\ errChan = <<>>
    /\ errCap = 0
    /\ faResult = "none"
    /\ recalcTodo = <<>>
    /\ hist = HistInit
    /\ bulk = [on |-> TRUE, pass |-> "none", p |-> 0, failIds |-> {}]
    /\ call = NoCall /\ ups = Off /\ cx = Off /\ tx = Off /\ cg = Off /\ fa = Off

\* what a bulk pass leaves unchanged
BulkUnchanged ==
    /\ UNCHANGED <<provRows, lastFetched, tags, clock, runVars, hist>>
    /\ UNCHANGED <<rlVars, swVars, cacheVars, searchVars>>
    /\ UNCHANGED <<call, ups, cx, tx, cg, fa>>

\* ScoringService.RecalculateAllScores
RecalculateAll(failIds) ==
    /\ bulk.on
    /\ contents' = RecalculateAllScores(contents, failIds)
    /\ bulk' = [on |-> TRUE, pass |-> "all", p |-> 0, failIds |-> failIds]
    /\ BulkUnchanged

\* ScoringService.RecalculateScoresForProvider
RecalculateProvider(p, failIds) ==
    /\ bulk.on
    /\ contents' = RecalculateScoresForProvider(contents, p, failIds)
    /\ bulk' = [on |-> TRUE, pass |-> "provider", p |-> p, failIds |-> failIds]
    /\ BulkUnchanged

NextBulk ==
    \/ \E failIds \in SUBSET FailCandidates : RecalculateAll(failIds)
    \/ \E p \in {1, 11}, failIds \in SUBSET FailCandidates :
         RecalculateProvider(p, failIds)

(***************************************************************************)
(* Two syncs of provider 1 that upsert the same (provider, external id)    *)
(***************************************************************************)
\* no sync run of the ingestion model is in progress
IngestIdle ==
    /\ provRows = {}
    /\ lastFetched = [p \in Providers |-> 0]
    /\ clock = 0
    /\ runs = 0
    /\ phase = "idle"
    /\ registered = {}
    /\ limTokens = [p \in Providers |-> 0]
    /\ wpc = [p \in Providers |-> "idle"]
    /\ wtodo = [p \in Providers |-> <<>>]
    /\ werr = [p \in Providers |-> "none"]
    /\ errChan = <<>>
    /\ errCap = 0
    /\ faResult = "none"
    /\ recalcTodo = <<>>
    /\ hist = HistInit

Syncs == {1, 2}

\* the view counts the two feeds can carry for the item
UpsViews == {1000, 2000, 3000}

\* the item of the pair (provider 1, "a") as a feed with `views` carries it;
\* it has no tags, so the loop body of fetchFromProvider ends after Upsert
UpsItem(views) == WithProvider(Item("a", "T", "video", views, 100, Nil, 0, 97, <<>>), 1)

InitUpsert ==
    /\ contents \in {<<>>, <<RowOf(UpsItem(500))>>}
    /\ tags = {}
    /\ IngestIdle
    /\ \E v1, v2 \in UpsViews :
         ups = [on |-> TRUE,
                pc |-> [s \in Syncs |-> "read"],
                item |-> [s \in Syncs |-> UpsItem(IF s = 1 THEN v1 ELSE v2)],
                existing |-> [s \in Syncs |-> 0],
                ok |-> [s \in Syncs |-> FALSE],
                last |-> 0]
    /\ call = NoCall /\ bulk = Off /\ cx = Off /\ tx = Off /\ cg = Off /\ fa = Off

UpsertUnchanged ==
    /\ UNCHANGED <<provRows, lastFetched, tags, clock, runVars, hist>>
    /\ UNCHANGED <<rlVars, swVars, cacheVars, searchVars>>
    /\ UNCHANGED <<call, bulk, cx, tx, cg, fa>>

\* the first round trip of Upsert in sync s: GetByProviderAndExternalID
UpsertLookup(s) ==
    /\ ups.on /\ ups.pc[s] = "read"
    /\ ups' = [ups EXCEPT !.pc[s] = "write",
                          !.existing[s] = GetByProviderAndExternalID(contents,
                                              ups.item[s].ProviderID,
                                              ups.item[s].ExternalID)]
    /\ UNCHANGED contents
    /\ UpsertUnchanged

\* the second round trip of Upsert in sync s: Create or Update; when it
\* fails fetchFromProvider logs the item and goes on to the next one
UpsertStore(s) ==
    /\ ups.on /\ ups.pc[s] = "write"
    /\ LET res == UpsertWrite(contents, ups.existing[s], ups.item[s])
       IN  /\ contents' = res.tbl
           /\ ups' = [ups EXCEPT !.pc[s] = "done", !.ok[s] = res.ok, !.last = s]
    /\ UpsertUnchanged

NextUpsert == \E s \in Syncs : UpsertLookup(s) \/ UpsertStore(s)

(***************************************************************************)
(* A search whose caller cancels.  `at` is the call Search is about to     *)
(* make, `running` whether that call is in flight; `done` is the state of  *)
(* the caller's context ("no", "cancelled" or "deadline").                 *)
(***************************************************************************)
CxKinds == {"cancelled", "deadline"}

InitCx ==
    /\ contents = <<>>
    /\ tags = {}
    /\ IngestIdle
    /\ \E cache \in BOOLEAN, hit \in BOOLEAN, rows \in {0, 2}, kind \in CxKinds :
         cx = [on |-> TRUE, cache |-> cache, hit |-> cache /\ hit, rows |-> rows,
               kind |-> kind,
               at |-> IF cache THEN "get" ELSE "count", running |-> FALSE,
               done |-> "no", after |-> {}, result |-> "none"]
    /\ call = NoCall /\ bulk = Off /\ ups = Off /\ tx = Off /\ cg = Off /\ fa = Off

CxUnchanged ==
    /\ UNCHANGED <<syncVars, rlVars, swVars, cacheVars, searchVars>>
    /\ UNCHANGED <<call, bulk, ups, tx, cg, fa>>

\* the calls that take no context from Search: Cache.Get and Cache.Set
\* (RedisCacheWrapper builds its own from context.Background())
IsCacheCall(at) == at \in {"get", "set"}

\* Search returns
CxReturn(c, result) == [c EXCEPT !.at = "return", !.running = FALSE, !.result = result]

\* Search goes on to its next call
CxGoto(c, at) == [c EXCEPT !.at = at, !.running = FALSE]

\* what Search does when the call at c.at fails with the context's error
CxFailed(c) ==
    CASE c.at = "count" ->
           \* countCtx.Err() is DeadlineExceeded only for a deadline: the
           \* total becomes -1 and the page query is sent; a cancellation is
           \* returned as a database error
           IF c.done = "deadline" THEN CxGoto(c, "page") ELSE CxReturn(c, "error")
      [] c.at = "page" -> CxReturn(c, "error")
      [] c.at = "tags" -> CxGoto(c, IF c.cache THEN "set" ELSE "respond")

\* what Search does when the call at c.at returns normally
CxSucceeded(c) ==
    CASE c.at = "get"   -> IF c.hit THEN CxReturn(c, "response") ELSE CxGoto(c, "count")
      [] c.at = "count" -> CxGoto(c, "page")
      [] c.at = "page"  -> CxGoto(c, IF c.rows > 0 THEN "tags"
                                      ELSE IF c.cache THEN "set" ELSE "respond")
      [] c.at = "tags"  -> CxGoto(c, IF c.cache THEN "set" ELSE "respond")
      [] c.at = "set"   -> CxGoto(c, "respond")

\* Search makes the call it is at: a storage call given a context that is
\* already done fails without being sent, a cache call is made regardless
CxStart ==
    /\ cx.on /\ ~cx.running /\ cx.at \in {"get", "count", "page", "tags", "set"}
    /\ cx' = IF cx.done # "no" /\ ~IsCacheCall(cx.at) THEN CxFailed(cx)
             ELSE [cx EXCEPT !.running = TRUE,
                             !.after = IF cx.done # "no"
                                       THEN @ \cup {<<cx.at, "started">>} ELSE @]
    /\ CxUnchanged

\* the call in flight returns: a storage call whose context is done has
\* been interrupted, a cache call has run to its end
CxFinish ==
    /\ cx.on /\ cx.running
    /\ cx' = IF cx.done # "no" /\ ~IsCacheCall(cx.at) THEN CxFailed(cx)
             ELSE CxSucceeded([cx EXCEPT !.after = IF cx.done # "no"
                                       THEN @ \cup {<<cx.at, "left running">>} ELSE @])
    /\ CxUnchanged

\* return response, nil at the end of Search
CxRespond ==
    /\ cx.on /\ cx.at = "respond"
    /\ cx' = CxReturn(cx, "response")
    /\ CxUnchanged

\* the caller cancels, or the caller's deadline passes, before Search returns
CxCancel ==
    /\ cx.on /\ cx.done = "no" /\ cx.at # "return"
    /\ cx' = [cx EXCEPT !.done = cx.kind]
    /\ CxUnchanged

NextCx == CxStart \/ CxFinish \/ CxRespond \/ CxCancel

(***************************************************************************)
(* ReplaceTags step by step, with a reader of the tags of the same item.   *)
(* `tags` is the committed table; tx.work is the table as the open         *)
(* transaction sees it, a sequence of (content_id, tag) rows.              *)
(***************************************************************************)
\* the rows of a committed table in some order
RowsOf(tagTbl) ==
    CHOOSE q \in [1..Cardinality(tagTbl) -> tagTbl] : SeqToSet(q) = tagTbl

\* the labels of content `contentID` among the rows, as GetByContentID and
\* LoadTagsBatch read them
LabelsIn(rows, contentID) ==
    { rows[i][2] : i \in { j \in 1..Len(rows) : rows[j][1] = contentID } }

\* a reader outside the transaction sees the uncommitted rows
ReaderViewUncommitted(committed, work) == work

\* a reader outside the transaction sees the committed rows only
ReaderView(committed, work) == RowsOf(committed)

\* the stored tags of item 1 before the call, and the new tag lists
TxStoredTags == {{}, {"go"}, {"go", "db"}}

TxNewTags == {<<>>, <<"go">>, <<"db", "ai">>, <<"go", "go">>, <<"ai", "go", "ai">>}

InitTx ==
    /\ contents = <<>>
    /\ IngestIdle
    /\ \E old \in TxStoredTags, new \in TxNewTags :
         /\ tags = { <<1, t>> : t \in old } \cup {<<2, "go">>}
         /\ tx = [on |-> TRUE, pc |-> "idle", contentID |-> 1, newTags |-> new,
                  before |-> tags, work |-> <<>>, result |-> "none",
                  read |-> FALSE, seen |-> {}, seenAt |-> "none",
                  committed |-> FALSE]
    /\ call = NoCall /\ bulk = Off /\ ups = Off /\ cx = Off /\ cg = Off /\ fa = Off

TxUnchanged ==
    /\ UNCHANGED <<provRows, lastFetched, contents, clock, runVars, hist>>
    /\ UNCHANGED <<rlVars, swVars, cacheVars, searchVars>>
    /\ UNCHANGED <<call, bulk, ups, cx, cg, fa>>

\* return an error: the deferred tx.Rollback() drops the uncommitted rows
TxFail(t) == [t EXCEPT !.pc = "done", !.result = "error", !.work = <<>>]

\* r.db.Begin()
TxBegin(fail) ==
    /\ tx.on /\ tx.pc = "idle"
    /\ tx' = IF fail THEN TxFail(tx)
             ELSE [tx EXCEPT !.pc = "begun", !.work = RowsOf(tags)]
    /\ UNCHANGED tags
    /\ TxUnchanged

\* DELETE FROM content_tags WHERE content_id = ?
TxDelete(fail) ==
    /\ tx.on /\ tx.pc = "begun"
    /\ tx' = IF fail THEN TxFail(tx)
             ELSE [tx EXCEPT !.pc = "deleted",
                             !.work = SelectSeq(tx.work,
                                          LAMBDA r : r[1] # tx.contentID)]
    /\ UNCHANGED tags
    /\ TxUnchanged

\* the rows of the one INSERT statement
NewRows(contentID, newTags) == [i \in 1..Len(newTags) |-> <<contentID, newTags[i]>>]

\* INSERT INTO content_tags (content_id, tag) VALUES (?, ?), ...: skipped
\* for an empty list; uk_content_tag fails the statement when a pair would
\* be stored twice
TxInsert ==
    /\ tx.on /\ tx.pc = "deleted"
    /\ tx' = IF Len(tx.newTags) = 0 THEN [tx EXCEPT !.pc = "inserted"]
             ELSE IF HasDuplicate(tx.work \o NewRows(tx.contentID, tx.newTags))
                  THEN TxFail(tx)
             ELSE [tx EXCEPT !.pc = "inserted",
                             !.work = tx.work \o NewRows(tx.contentID, tx.newTags)]
    /\ UNCHANGED tags
    /\ TxUnchanged

\* tx.Commit()
TxCommit(fail) ==
    /\ tx.on /\ tx.pc = "inserted"
    /\ IF fail THEN /\ tx' = TxFail(tx)
                    /\ UNCHANGED tags
       ELSE /\ tags' = SeqToSet(tx.work)
            /\ tx' = [tx EXCEPT !.pc = "done", !.result = "ok",
                                !.committed = TRUE, !.work = <<>>]
    /\ TxUnchanged

\* another connection reads the tags of the item
TxRead ==
    /\ tx.on
    /\ tx' = [tx EXCEPT !.read = TRUE,
                        !.seen = LabelsIn(ReaderView(tags, tx.work), tx.contentID),
                        !.seenAt = tx.pc]
    /\ UNCHANGED tags
    /\ TxUnchanged

NextTx ==
    \/ \E fail \in BOOLEAN : TxBegin(fail)
    \/ \E fail \in BOOLEAN : TxDelete(fail)
    \/ TxInsert
    \/ \E fail \in BOOLEAN : TxCommit(fail)
    \/ TxRead

(***************************************************************************)
(* InMemoryCache.Get step by step, in goroutines that run next to Set on   *)
(* the same key.  Each critical section of Get is one step.                *)
(***************************************************************************)
Getters == {1, 2}

RaceKey == "k1"

NoItem == [ok |-> FALSE, value |-> "nil", expiration |-> 0]

InitRace ==
    /\ cItems = << >>
    /\ cDefault = NewInMemoryCache(0)
    /\ cNow = 0
    /\ cLast = [k \in CacheKeys |-> NoSet]
    /\ cGot = NoGet
    /\ cg = [on |-> TRUE, pc |-> [g \in Getters |-> "idle"],
             it |-> [g \in Getters |-> NoItem]]
    /\ call = NoCall /\ bulk = Off /\ ups = Off /\ cx = Off /\ tx = Off /\ fa = Off

RaceUnchanged ==
    /\ UNCHANGED <<syncVars, rlVars, swVars, searchVars>>
    /\ UNCHANGED <<call, bulk, ups, cx, tx, fa>>

\* c.mu.RLock(); it, ok := c.items[key]; c.mu.RUnlock()
GetRead(g) ==
    /\ cg.on /\ cg.pc[g] = "idle"
    /\ cg' = [cg EXCEPT !.pc[g] = "read", !.it[g] = CacheRead(cItems, RaceKey)]
    /\ UNCHANGED <<cItems, cDefault, cNow, cLast, cGot>>
    /\ RaceUnchanged

\* the tests on what was read: not found and found return, an expired
\* entry goes on to the delete
GetCheck(g) ==
    /\ cg.on /\ cg.pc[g] = "read"
    /\ LET it == cg.it[g]
       IN  IF ~it.ok
           THEN /\ cg' = [cg EXCEPT !.pc[g] = "idle"]
                /\ cGot' = [key |-> RaceKey, value |-> "nil", found |-> FALSE]
           ELSE IF After(cNow, it.expiration)
           THEN /\ cg' = [cg EXCEPT !.pc[g] = "expired"]
                /\ UNCHANGED cGot
           ELSE /\ cg' = [cg EXCEPT !.pc[g] = "idle"]
                /\ cGot' = [key |-> RaceKey, value |-> it.value, found |-> TRUE]
    /\ UNCHANGED <<cItems, cDefault, cNow, cLast>>
    /\ RaceUnchanged

\* c.mu.Lock(); delete(c.items, key); c.mu.Unlock(); return nil, false
GetDelete(g) ==
    /\ cg.on /\ cg.pc[g] = "expired"
    /\ cItems' = CacheDelete(cItems, RaceKey)
    /\ cg' = [cg EXCEPT !.pc[g] = "idle"]
    /\ cGot' = [key |-> RaceKey, value |-> "nil", found |-> FALSE]
    /\ UNCHANGED <<cDefault, cNow, cLast>>
    /\ RaceUnchanged

NextRace ==
    \/ \E g \in Getters : GetRead(g)
    \/ \E g \in Getters : GetCheck(g)
    \/ \E g \in Getters : GetDelete(g)
    \/ \E v \in CacheValues, ttl \in {1, 3} : CacheSet(RaceKey, v, ttl)
    \/ CacheTick

(***************************************************************************)
(* Manager.FetchAll next to concurrent RegisterProvider calls.  fa.mu is   *)
(* the manager's lock (its readers and its writer), fa.limLock the lock of *)
(* each provider's limiter, fa.w the position of each worker goroutine.    *)
(***************************************************************************)
\* RegisterProvider calls next to one FetchAll
MaxRegisters == 2

\* the token counts a limiter can hold when FetchAll starts
FaTokens == {0, 1}

InitFetchAll ==
    /\ \E registeredAtStart \in SUBSET Providers, tokens \in [Providers -> FaTokens] :
         fa = [on |-> TRUE,
               providers |-> registeredAtStart,
               pc |-> "make", cap |-> 0, chan |-> <<>>, snap |-> {},
               result |-> "none",
               readers |-> {}, writer |-> 0, registers |-> 0,
               tokens |-> tokens,
               limLock |-> [p \in Providers |-> FALSE],
               w |-> [p \in Providers |-> "none"]]
    /\ call = NoCall /\ bulk = Off /\ ups = Off /\ cx = Off /\ tx = Off /\ cg = Off

FaUnchanged ==
    /\ UNCHANGED <<syncVars, rlVars, swVars, cacheVars, searchVars>>
    /\ UNCHANGED <<call, bulk, ups, cx, tx, cg>>

\* errors := make(chan error, len(m.providers)), read without the lock
FetchAllMake ==
    /\ fa.on /\ fa.pc = "make"
    /\ fa' = [fa EXCEPT !.pc = "rlock", !.cap = Cardinality(fa.providers)]
    /\ FaUnchanged

\* m.mu.RLock() in FetchAll
FetchAllRLock ==
    /\ fa.on /\ fa.pc = "rlock" /\ fa.writer = 0
    /\ fa' = [fa EXCEPT !.pc = "snapshot", !.readers = @ \cup {0}]
    /\ FaUnchanged

\* the providers are copied, m.mu.RUnlock(), one goroutine per provider
FetchAllSpawn ==
    /\ fa.on /\ fa.pc = "snapshot"
    /\ fa' = [fa EXCEPT !.pc = "wgWait", !.readers = @ \ {0},
                        !.snap = fa.providers,
                        !.w = [p \in Providers |->
                                 IF p \in fa.providers THEN "rlock" ELSE "none"]]
    /\ FaUnchanged

\* m.mu.Lock() in RegisterProvider
RegisterLock(p) ==
    /\ fa.on /\ fa.writer = 0 /\ fa.readers = {}
    /\ fa.registers < MaxRegisters
    /\ fa.pc # "returned"
    /\ fa' = [fa EXCEPT !.writer = p, !.registers = @ + 1]
    /\ FaUnchanged

\* the body of RegisterProvider and its deferred Unlock: the provider and a
\* new limiter are stored
RegisterStore(p) ==
    /\ fa.on /\ fa.writer = p
    /\ fa' = [fa EXCEPT !.writer = 0, !.providers = @ \cup {p}]
    /\ FaUnchanged

\* m.mu.RLock() in fetchFromProvider
WorkerRLock(p) ==
    /\ fa.on /\ fa.w[p] = "rlock" /\ fa.writer = 0
    /\ fa' = [fa EXCEPT !.w[p] = "runlock", !.readers = @ \cup {p}]
    /\ FaUnchanged

\* the limiter is looked up, m.mu.RUnlock()
WorkerRUnlock(p) ==
    /\ fa.on /\ fa.w[p] = "runlock"
    /\ fa' = [fa EXCEPT !.w[p] = "wait", !.readers = @ \ {p}]
    /\ FaUnchanged

\* rl.mu.Lock() at the start of Wait
WorkerWaitLock(p) ==
    /\ fa.on /\ fa.w[p] = "wait" /\ ~fa.limLock[p]
    /\ fa' = [fa EXCEPT !.w[p] = "locked", !.limLock[p] = TRUE]
    /\ FaUnchanged

\* Wait with a token, or without one when the time of a token has passed
\* (late): a token is taken and the deferred Unlock runs; otherwise
\* rl.mu.Unlock() before time.Sleep
WorkerTakeOrSleep(p, late) ==
    /\ fa.on /\ fa.w[p] = "locked"
    /\ fa' = IF fa.tokens[p] > 0 \/ late
             THEN [fa EXCEPT !.w[p] = "fetch", !.limLock[p] = FALSE,
                             !.tokens[p] = @ - 1]
             ELSE [fa EXCEPT !.w[p] = "sleep", !.limLock[p] = FALSE]
    /\ FaUnchanged

\* time.Sleep is over: rl.mu.Lock(), rl.tokens--, the deferred Unlock
WorkerWake(p) ==
    /\ fa.on /\ fa.w[p] = "sleep" /\ ~fa.limLock[p]
    /\ fa' = [fa EXCEPT !.w[p] = "fetch", !.tokens[p] = @ - 1]
    /\ FaUnchanged

\* provider.Fetch() and the storage calls of the loop return: with an
\* error fetchFromProvider returns it, otherwise nil
WorkerCalls(p, ok) ==
    /\ fa.on /\ fa.w[p] = "fetch"
    /\ fa' = [fa EXCEPT !.w[p] = IF ok THEN "exit" ELSE "send"]
    /\ FaUnchanged

\* errors <- err, then wg.Done()
WorkerReport(p) ==
    /\ fa.on /\ fa.w[p] = "send"
    /\ Len(fa.chan) < fa.cap
    /\ fa' = [fa EXCEPT !.w[p] = "exit", !.chan = Append(@, p)]
    /\ FaUnchanged

\* wg.Wait() returns, the channel is closed and drained, FetchAll returns
FetchAllDone ==
    /\ fa.on /\ fa.pc = "wgWait"
    /\ \A p \in fa.snap : fa.w[p] = "exit"
    /\ fa' = [fa EXCEPT !.pc = "returned", !.chan = <<>>,
                        !.result = FetchAllResult(fa.chan)]
    /\ FaUnchanged

\* the steps of FetchAll and its workers
FetchAllSteps ==
    \/ FetchAllMake \/ FetchAllRLock \/ FetchAllSpawn \/ FetchAllDone
    \/ \E p \in Providers :
         \/ WorkerRLock(p) \/ WorkerRUnlock(p)
         \/ WorkerWaitLock(p) \/ WorkerWake(p)
         \/ \E late \in BOOLEAN : WorkerTakeOrSleep(p, late)
         \/ \E ok \in BOOLEAN : WorkerCalls(p, ok)
         \/ WorkerReport(p)

NextFetchAll ==
    \/ FetchAllSteps
    \/ \E p \in Providers : RegisterLock(p) \/ RegisterStore(p)

(***************************************************************************)
(* Migrations: parseSQLStatements.  A text is a sequence of characters, a  *)
(* file the sequence of the lines bufio.Scanner hands out.                 *)
(***************************************************************************)
\* the longest line and the longest file of the enumerated inputs
MaxLineLen == 3

MaxLines == 2

\* a letter, the statement terminator, the comment dash and a blank
SqlChars == {"a", ";", "-", " "}

IsSpace(c) == c \in {" ", "\n"}

RECURSIVE TrimLeft(_)
TrimLeft(text) ==
    IF text = <<>> THEN text
    ELSE IF IsSpace(Head(text)) THEN TrimLeft(Tail(text)) ELSE text

RECURSIVE TrimRight(_)
TrimRight(text) ==
    IF text = <<>> THEN text
    ELSE IF IsSpace(text[Len(text)]) THEN TrimRight(SubSeq(text, 1, Len(text) - 1))
    ELSE text

\* strings.TrimSpace
TrimSpace(text) == TrimRight(TrimLeft(text))

\* strings.HasPrefix
HasPrefix(text, prefix) ==
    /\ Len(text) >= Len(prefix)
    /\ SubSeq(text, 1, Len(prefix)) = prefix

\* strings.HasSuffix
HasSuffix(text, suffix) ==
    /\ Len(text) >= Len(suffix)
    /\ SubSeq(text, Len(text) - Len(suffix) + 1, Len(text)) = suffix

\* strings.TrimSuffix: one occurrence of the suffix is removed
TrimSuffix(text, suffix) ==
    IF HasSuffix(text, suffix) THEN SubSeq(text, 1, Len(text) - Len(suffix)) ELSE text

\* the closure flushStatement on [statements, builder]
flushStatement(st) ==
    LET stmt == TrimSpace(st.builder)
        bare == IF HasSuffix(stmt, <<";">>)
                THEN TrimSpace(TrimSuffix(stmt, <<";">>)) ELSE stmt
    IN  IF stmt = <<>> THEN st
        ELSE [statements |-> IF bare # <<>> THEN Append(st.statements, bare)
                             ELSE st.statements,
              builder |-> <<>>]

\* the body of the scanner loop for one line
scanLine(st, line) ==
    LET trimmed == TrimSpace(line)
        written == [st EXCEPT !.builder = @ \o line \o <<"\n">>]
    IN  IF trimmed = <<>> \/ HasPrefix(trimmed, <<"-", "-">>) THEN st
        ELSE IF HasSuffix(trimmed, <<";">>) THEN flushStatement(written)
        ELSE written

\* the scanner loop over the lines lo..hi, one half after the other
RECURSIVE scanLines(_, _, _, _)
scanLines(st, lines, lo, hi) ==
    IF lo > hi THEN st
    ELSE IF lo = hi THEN scanLine(st, lines[lo])
    ELSE With(scanLines(st, lines, lo, (lo + hi) \div 2),
              LAMBDA next : scanLines(next, lines, (lo + hi) \div 2 + 1, hi))

parseSQLStatements(lines) ==
    flushStatement(scanLines([statements |-> <<>>, builder |-> <<>>],
                             lines, 1, Len(lines))).statements

\* the lines of 001_initial_schema.sql by their kind: comment ("c", indented
\* "i"), empty ("b", blanks only "w"), text ("x", indented "y") and text
\* that ends with a semicolon ("t")
InitialSchemaKinds ==
    <<"c", "c", "c", "b", "c", "c", "x", "y", "y", "y", "y", "t", "b", "c", "c", "c", "x",
      "y", "y", "y", "y", "y", "y", "y", "y", "y", "y", "t", "b", "c", "c", "c", "c", "x",
      "y", "y", "y", "y", "y", "w", "i", "y", "y", "y", "w", "i", "y", "y", "y", "w", "i",
      "y", "y", "w", "i", "y", "y", "w", "i", "y", "y", "y", "y", "y", "y", "y", "t", "b",
      "c", "c", "c", "x", "y", "y", "y", "y", "w", "i", "y", "y", "y", "y", "t", "b", "b">>

LineOfKind(k) ==
    CASE k = "c" -> <<"-", "-", " ", "a">>
      [] k = "i" -> <<" ", "-", "-", " ", "a">>
      [] k = "b" -> <<>>
      [] k = "w" -> <<" ", " ">>
      [] k = "x" -> <<"a", " ", "a">>
      [] k = "y" -> <<" ", "a", " ", "a">>
      [] k = "t" -> <<"a", " ", "a", ";">>

InitialSchema == [i \in 1..Len(InitialSchemaKinds) |-> LineOfKind(InitialSchemaKinds[i])]

\* every line of at most MaxLineLen characters
SqlLines == UNION { [1..n -> SqlChars] : n \in 0..MaxLineLen }

\* every file of at most MaxLines such lines, and the initial schema
SqlFiles == UNION { [1..n -> SqlLines] : n \in 0..MaxLines } \cup {InitialSchema}

\* a migration file has been read
InitMigration ==
    /\ \E file \in SqlFiles : call = [fn |-> "ReadFile", file |-> file]
    /\ bulk = Off /\ ups = Off /\ cx = Off /\ tx = Off /\ cg = Off /\ fa = Off

\* the file that was read is parsed
ParseSQL ==
    /\ call.fn = "ReadFile"
    /\ call' = [fn |-> "parseSQLStatements", file |-> call.file,
                out |-> parseSQLStatements(call.file)]
    /\ UNCHANGED <<syncVars, rlVars, swVars, cacheVars, searchVars>>
    /\ UNCHANGED <<bulk, ups, cx, tx, cg, fa>>

NextMigration == ParseSQL

Init == InitSync /\ LimiterOff /\ WindowOff /\ CacheOff /\ SearchOff /\ RestOff

Next ==
    \/ StartRun
    \/ FetchAllStart
    \/ \E p \in Providers : WorkerWait(p)
    \/ \E p \in Providers : WorkerFetchFail(p)
    \/ \E p \in Providers : WorkerFetchOk(p)
    \/ \E p \in Providers : WorkerLookup(p)
    \/ \E p \in Providers : WorkerItem(p)
    \/ \E p \in Providers : WorkerStamp(p)
    \/ \E p \in Providers : WorkerSend(p)
    \/ FetchAllReturn
    \/ GetAllProviders
    \/ RecalcProvider
    \/ FinishRun

Spec == Init /\ [][Next]_vars

\* one limiter and its callers, nothing else running
LimiterInit == InitSync /\ InitLimiter /\ WindowOff /\ CacheOff /\ SearchOff /\ RestOff

SpecLimiter == LimiterInit /\ [][NextLimiter]_vars

\* the requests of one client IP, nothing else running
WindowInit == InitSync /\ LimiterOff /\ InitWindow /\ CacheOff /\ SearchOff /\ RestOff

SpecWindow == WindowInit /\ [][NextWindow]_vars

\* one local cache used by one caller at a time, nothing else running
LocalCacheInit == InitSync /\ LimiterOff /\ WindowOff /\ InitCache /\ SearchOff /\ RestOff

SpecCache == LocalCacheInit /\ [][NextCache]_vars

\* searches over the corpus, without a cache
SearchInit == CorpusLoaded /\ LimiterOff /\ WindowOff /\ CacheOff /\ InitSearch /\ RestOff

SpecSearch == SearchInit /\ [][NextSearch]_vars

\* searches over the corpus, with a local or a remote cache
SearchCacheInit == CorpusLoaded /\ LimiterOff /\ WindowOff /\ InitSearchCache /\ RestOff

SpecSearchCache == SearchCacheInit /\ [][NextSearchCache]_vars

\* the stateless functions start from the idle system
CallInit == InitSync /\ LimiterOff /\ WindowOff /\ CacheOff /\ SearchOff /\ RestOff

\* the error handler of the API
SpecErrors == CallInit /\ [][NextErrors]_vars

\* the scoring engine
SpecScore == CallInit /\ [][NextScore]_vars

\* bulk passes over a stored corpus, nothing else running
BulkInit == InitBulk /\ LimiterOff /\ WindowOff /\ CacheOff /\ SearchOff

SpecBulk == BulkInit /\ [][NextBulk]_vars

\* two concurrent syncs upserting one pair, nothing else running
UpsertInit == InitUpsert /\ LimiterOff /\ WindowOff /\ CacheOff /\ SearchOff

SpecUpsert == UpsertInit /\ [][NextUpsert]_vars

\* one search under a caller's context, nothing else running
CxInit == InitCx /\ LimiterOff /\ WindowOff /\ CacheOff /\ SearchOff

SpecCx == CxInit /\ [][NextCx]_vars

\* one ReplaceTags and a reader, nothing else running
TxInit == InitTx /\ LimiterOff /\ WindowOff /\ CacheOff /\ SearchOff

SpecTx == TxInit /\ [][NextTx]_vars

\* concurrent Get and Set on one key of the local cache
RaceInit == InitSync /\ LimiterOff /\ WindowOff /\ SearchOff /\ InitRace

SpecRace == RaceInit /\ [][NextRace]_vars

\* the parser of the migration files
MigrationInit == InitSync /\ LimiterOff /\ WindowOff /\ CacheOff /\ SearchOff
                 /\ InitMigration

SpecMigration == MigrationInit /\ [][NextMigration]_vars

\* one FetchAll next to RegisterProvider calls
FetchAllInit == InitSync /\ LimiterOff /\ WindowOff /\ CacheOff /\ SearchOff
                /\ InitFetchAll

SpecFetchAll == FetchAllInit /\ [][NextFetchAll]_vars

\* the same with the scheduler running every goroutine that can take a
\* step and every call returning: a RegisterProvider that holds the lock
\* finishes, FetchAll and its workers go on whenever they are not blocked
SpecFetchAllLive ==
    /\ SpecFetchAll
    /\ WF_vars(FetchAllSteps)
    /\ WF_vars(\E p \in Providers : RegisterStore(p))


(***************************************************************************)
(* Properties of the ingestion                                             *)
(***************************************************************************)
\* the rows of the contents table with this (provider_id, external_id)
RowsWithKey(tbl, providerID, externalID) ==
    { i \in 1..Len(tbl) : /\ tbl[i].provider_id = providerID
                          /\ tbl[i].external_id = externalID }

\* the step is an iteration of the item loop of the worker of p
ItemStep(p) == hist'.loop[p].nTried = hist.loop[p].nTried + 1

\* the step is the UpdateLastFetched call of the worker of p
StampStep(p) == hist'.stamps[p] = hist.stamps[p] + 1

UniqueKey ==
    \A i, j \in 1..Len(contents) :
        (/\ contents[i].provider_id = contents[j].provider_id
         /\ contents[i].external_id = contents[j].external_id) => i = j

UpsertedInPlace(p) ==
    (ItemStep(p) /\ hist'.loop[p].lastUp # "failed") =>
        LET item == Head(wtodo[p])
            before == RowsWithKey(contents, p, item.ExternalID)
            after == RowsWithKey(contents', p, item.ExternalID)
        IN  /\ Cardinality(after) = 1
            /\ \A i \in after : /\ contents'[i].views = item.Views
                                /\ contents'[i].likes = item.Likes
                                /\ contents'[i].reading_time = item.ReadingTime
                                /\ contents'[i].reactions = item.Reactions
            /\ before # {} => (after = before /\ Len(contents') = Len(contents))
            /\ before = {} => Len(contents') = Len(contents) + 1

\* C1: an upsert that returns nil leaves exactly one row for its (provider,
\* external-id), holding the metrics just upserted and, when the pair was
\* stored before, the internal id of the earlier upsert; no state has two
\* rows with the same (provider, external-id)
C1_UpsertKeepsOneRow ==
    /\ []UniqueKey
    /\ [][\A p \in Providers : UpsertedInPlace(p)]_vars

\* a stored pair was upserted again with other metrics
C1_Witness ==
    \E p \in Providers :
        /\ hist.loop[p].lastUp = "changed"
        /\ Len(contents) > 1

\* C2: one FetchAll syncs every registered provider exactly once, returns
\* only when every worker has finished, and returns an error exactly when
\* some provider's sync returned one
C2_FetchAllAttemptsAll ==
    /\ \A p \in Providers : hist.synced[p] <= 1
    /\ faResult # "none" =>
        /\ \A p \in registered : /\ hist.synced[p] = 1
                                 /\ wpc[p] = "done"
                                 /\ werr[p] \in {"nil", "err"}
        /\ (faResult = "err") <=> (\E p \in registered : werr[p] = "err")

\* FetchAll returned an error after one provider failed and another synced
C2_Witness ==
    /\ faResult = "err"
    /\ \E p, q \in registered :
        /\ werr[p] = "err" /\ ~hist.fetchOk[p]
        /\ werr[q] = "nil" /\ hist.stampOk[q]

\* C3 as stated: a provider's last_fetched_at changes in a run if and only
\* if its own fetch succeeded
C3_StampIffFetched ==
    faResult # "none" =>
        \A p \in registered : (lastFetched[p] = clock) <=> hist.fetchOk[p]

\* the rows and the tags of provider p
ProviderRows(tbl, p) == { <<i, tbl[i]>> : i \in { j \in 1..Len(tbl) : tbl[j].provider_id = p } }

ProviderTags(tbl, tagTbl, p) ==
    { x \in tagTbl : x[1] <= Len(tbl) /\ tbl[x[1]].provider_id = p }

\* C3 (amended): a failed fetch of one provider leaves its rows, tags and
\* last_fetched_at as they were and makes FetchAll return an error, while
\* every other provider is synced to the end; last_fetched_at changes in a
\* run exactly when the provider's fetch, its GetByName lookup and the
\* UpdateLastFetched write succeeded
C3_StampFollowsOwnOutcome ==
    /\ [](faResult # "none" =>
            /\ \A p \in registered :
                /\ (lastFetched[p] = clock)
                       <=> (hist.fetchOk[p] /\ hist.lookupOk[p] /\ hist.stampOk[p])
                /\ (werr[p] = "nil") <=> (hist.fetchOk[p] /\ hist.lookupOk[p])
                /\ werr[p] = "nil" => hist.stamps[p] = 1
            /\ (\E p \in registered : ~hist.fetchOk[p]) => faResult = "err")
    /\ [][\A p \in Providers :
            (\/ ProviderRows(contents', p) # ProviderRows(contents, p)
             \/ ProviderTags(contents', tags', p) # ProviderTags(contents, tags, p)
             \/ lastFetched'[p] # lastFetched[p])
                => (hist.fetchOk[p] /\ hist.lookupOk[p])]_vars

\* one provider's fetch failed, the other one stored an item and its stamp
C3_Witness ==
    /\ faResult = "err"
    /\ \E p, q \in registered :
        /\ ~hist.fetchOk[p] /\ lastFetched[p] # clock
        /\ lastFetched[q] = clock
        /\ \E i \in hist.upserted : contents[i].provider_id = q

C5_ScoredAfterRun ==
    phase = "finished" =>
        \A i \in hist.upserted :
            contents[i].score = CalculateFinalScore(ContentOf(contents[i]), NowDay)

\* C6: a re-sync of a stored item that meets no storage error leaves the
\* item with exactly the tags of the payload
C6_TagsReplacedOnResync ==
    [][\A p \in Providers :
        (/\ ItemStep(p)
         /\ hist'.loop[p].lastUp \in {"changed", "same"}
         /\ hist'.loop[p].clean) =>
            LET item == Head(wtodo[p])
            IN  \A i \in RowsWithKey(contents', p, item.ExternalID) :
                    TagsOf(tags', i) = SeqToSet(item.Tags)]_vars

(***************************************************************************)
(* Properties of the token bucket                                          *)
(***************************************************************************)
\* C7: in every state of the limiter rate >= 1 and 0 <= tokens <= rate
C7_TokensWithinBucket ==
    /\ rlRate >= 1
    /\ rlTokens >= 0
    /\ rlTokens <= rlRate

\* C8: up to any tick, the Wait calls that have returned are at most the
\* tokens the bucket started with plus the tokens a minute-rate refill
\* yields in the elapsed time, taken at the highest rate the limiter had
C8_ReturnsWithinSupply ==
    rlHist.returns * TicksPerMinute
        <= rlHist.start * TicksPerMinute + rlNow * rlHist.peak

(***************************************************************************)
(* Properties of the sliding-window limiter                                *)
(***************************************************************************)
\* the checks answered allow whose time lies in the window starting at s
AllowedIn(s) ==
    { i \in 1..Len(swLog) : /\ swLog[i].allowed
                            /\ s <= swLog[i].t
                            /\ swLog[i].t < s + WindowTicks }

\* C9: at most swLimit of the checks whose times lie within one window are
\* answered allow
C9_AtMostLimitPerWindow ==
    \A s \in 0..MaxSwTick : Cardinality(AllowedIn(s)) <= swLimit

\* C10: a request whose check returned a store error is passed on to the
\* next handler and never answered with 429
C10_FailsOpen ==
    \A i \in 1..Len(swLog) : swLog[i].err => swLog[i].status = "next"

\* a store error was passed on after an earlier request had been rejected
C10_Witness ==
    \E i, j \in 1..Len(swLog) :
        /\ j < i
        /\ swLog[j].status = "429"
        /\ swLog[i].err /\ swLog[i].status = "next"

(***************************************************************************)
(* Properties of the local cache                                           *)
(***************************************************************************)
\* the most recent Set on the key is still within its time to live, the
\* default one when the Set was given ttl <= 0
LastSetLive(k) ==
    /\ cLast[k].set
    /\ cNow <= cLast[k].at + (IF cLast[k].ttl <= 0 THEN cDefault ELSE cLast[k].ttl)

\* C11: a Get returns (v, found) exactly when the most recent Set on the key
\* stored v and the time is not past set time plus ttl (plus the default
\* TTL when ttl <= 0); otherwise it returns not-found and the key is no
\* longer stored after it
C11_GetSeesLastSet ==
    [][\A k \in CacheKeys :
        CacheGet(k) =>
            /\ cGot'.found = LastSetLive(k)
            /\ LastSetLive(k) => cGot'.value = cLast[k].value
            /\ ~LastSetLive(k) => (cGot'.value = "nil" /\ k \notin DOMAIN cItems')]_vars

\* a Get found the key, set with ttl <= 0, at the last tick of its default
\* time to live; another Get deleted an expired entry
C11_Witness ==
    /\ cGot.found
    /\ cLast[cGot.key].ttl <= 0
    /\ cNow = cLast[cGot.key].at + cDefault
    /\ \E k \in CacheKeys : cLast[k].set /\ k \notin DOMAIN cItems

(***************************************************************************)
(* Search                                                                  *)
(***************************************************************************)
\* what Search returns for the same request and outcomes with no cache
\* configured
Uncached(raw, out) ==
    SearchResult(NewSearchService("none", 0, sCfg.queryTimeout), raw, out,
                 contents, tags, << >>, cDefault, cNow)

\* C12: a Search whose get and set on the remote cache both fail sees a
\* miss, leaves the store as it was, and returns what it returns with no
\* cache configured, which is no error when the storage calls succeed
C12_CacheDownIsAlwaysMiss ==
    [][\A out \in CacheOutcomes :
        (Search(out) /\ sCfg.cache = "remote"
                     /\ out.get = "fail" /\ out.set = "fail") =>
            /\ ~sRes'.hit
            /\ cItems' = cItems
            /\ sRes'.code = Uncached(sRes.raw, out).code
            /\ sRes'.resp = Uncached(sRes.raw, out).resp
            /\ sRes'.code = "ok"]_vars

C12_Witness ==
    /\ sRes.phase = "done"
    /\ sCfg.cache = "remote"
    /\ sRes.out.get = "fail"
    /\ sRes.out.set = "fail"
    /\ sRes.key \in DOMAIN cItems
    /\ cNow < cItems[sRes.key].expiration
    /\ Len(sRes.resp.results) > 0

\* C13: requests that differ in a field have different keys, so that a
\* cache hit returns a response that was computed for the validated
\* request being served
C13_HitIsForSameRequest ==
    (sRes.phase = "done" /\ sRes.hit) => sRes.for = sRes.req

\* the valid sort fields and sort orders of Validate
ValidSortFields == {"score", "published_at", "title"}

ValidSortOrders == {"asc", "desc"}

ResultIds(resp) == [n \in 1..Len(resp.results) |-> resp.results[n].id]

\* the rows ids are in the order of sortBy in direction sortOrder
OrderedBy(tbl, ids, sortBy, sortOrder) ==
    \A m, n \in 1..Len(ids) :
        m < n => ~OrderBeforeNoTie(tbl, ids[n], ids[m], sortBy, sortOrder)

\* C15: a search that asks for the sort field score, published_at, title or
\* id is served with that sort field, and its page is ordered by that field
\* in the requested direction
C15_FourSortFields ==
    (/\ sRes.phase = "done"
     /\ sRes.code = "ok"
     /\ sRes.raw.SortBy \in {"score", "published_at", "title", "id"}
     /\ sRes.raw.SortOrder \in ValidSortOrders) =>
        /\ sRes.req.SortBy = sRes.raw.SortBy
        /\ OrderedBy(contents, ResultIds(sRes.resp), sRes.raw.SortBy,
                     RepoSortOrder(sRes.raw.SortOrder))

\* the match set of a validated request in the order Search asks for
OrderedMatches(tbl, r) ==
    OrderRows(tbl, MatchIds(tbl, r), RepoSortBy(r.SortBy), RepoSortOrder(r.SortOrder))

\* positions from..to of a sequence, empty when from > to
Slice(seq, from, to) == [n \in 1..(IF to >= from THEN to - from + 1 ELSE 0) |-> seq[from + n - 1]]

\* every storage call of the served search succeeded in time
StorageFine ==
    /\ sRes.phase = "done"
    /\ ~sRes.out.countErr
    /\ sRes.out.pageErr = "none"
    /\ ~sRes.repo.countTimedOut
    /\ sRes.repo.deadlineAt = "none"

\* C16: a search whose storage calls succeed returns, for page p and page
\* size s of the validated request and the total T, exactly the rows at
\* positions (p-1)*s+1 .. min(p*s, T) of the ordered match set and
\* total_pages = ceiling(T / s), and its offset is (p-1)*s, non-negative
C16_PageIsExactSlice ==
    StorageFine =>
        LET p == sRes.req.Page
            s == sRes.req.PerPage
            all == OrderedMatches(contents, sRes.req)
            T == Len(all)
        IN  /\ sRes.repo.offset >= 0
            /\ sRes.repo.offset = (p - 1) * s
            /\ sRes.code = "ok"
            /\ sRes.resp.total = T
            /\ ResultIds(sRes.resp) = Slice(all, (p - 1) * s + 1, Min(p * s, T))
            /\ Len(sRes.resp.results) <= s
            /\ (p - 1) * s >= T => sRes.resp.results = << >>
            /\ sRes.resp.total_pages * s >= T
            /\ (sRes.resp.total_pages - 1) * s < T \/ (T = 0 /\ sRes.resp.total_pages = 0)

\* the number of matching rows that come before row i
Rank(tbl, r, i) ==
    Cardinality({ j \in MatchIds(tbl, r) :
                    OrderBefore(tbl, j, i, RepoSortBy(r.SortBy),
                                RepoSortOrder(r.SortOrder)) })

\* C17: of two different matching rows exactly one comes before the other,
\* by the sort field in the requested direction and then by id descending,
\* and the n-th row of a page at offset o is the one row that has o + n - 1
\* matching rows before it, so a row is on one page only and none is
\* skipped, rows with equal sort keys included
C17_TotalOrder ==
    (sRes.phase = "done" /\ sRes.code = "ok") =>
        LET r == sRes.req
            M == MatchIds(contents, r)
            sb == RepoSortBy(r.SortBy)
            so == RepoSortOrder(r.SortOrder)
            ids == ResultIds(sRes.resp)
            o == sRes.repo.offset
        IN  /\ \A i, j \in M :
                 i # j => (OrderBefore(contents, i, j, sb, so)
                            # OrderBefore(contents, j, i, sb, so))
            /\ \A i, j \in M :
                 OrderBefore(contents, i, j, sb, so) =>
                    \/ OrderBeforeNoTie(contents, i, j, sb, so)
                    \/ (SortKey(contents, i, sb) = SortKey(contents, j, sb) /\ i > j)
            /\ \A n \in 1..Len(ids) :
                 ids[n] \in M /\ Rank(contents, r, ids[n]) = o + n - 1
            /\ Len(ids) = Cardinality({ i \in M :
                                Rank(contents, r, i) \in o..(o + r.PerPage - 1) })

C17_Witness ==
    /\ sRes.phase = "done"
    /\ sRes.code = "ok"
    /\ sRes.req.SortBy = "score"
    /\ sRes.req.PerPage = 1
    /\ sRes.req.Page = 2
    /\ ResultIds(sRes.resp) = <<1>>
    /\ contents[1].score = contents[3].score

C19_OnlyPageQueryFails ==
    sRes.phase = "done" =>
        /\ (/\ sRes.out.countErr \/ sRes.repo.countTimedOut
            /\ sRes.out.pageErr = "none"
            /\ sRes.out.countTime + sRes.out.pageTime <= sCfg.queryTimeout
            /\ sRes.repo.offset >= 0) =>
               (sRes.code = "ok" /\ sRes.resp.total = -1)
        /\ sRes.tagsFailed =>
               /\ sRes.code = "ok"
               /\ \A n \in 1..Len(sRes.resp.results) :
                    sRes.resp.results[n].tags = << >>
        /\ sRes.code # "ok" =>
               (sRes.repo.pageFailed \/ sRes.repo.deadlineAt # "none")

\* C20: a search whose budget expires in a storage operation, before the
\* page query is sent, while it is sent or while its rows are read, returns
\* the error QUERY_TIMEOUT, and no search returns NOT_FOUND
C20_DeadlineIsQueryTimeout ==
    sRes.phase = "done" =>
        /\ sRes.repo.deadlineAt # "none" => sRes.code = "QUERY_TIMEOUT"
        /\ sRes.code # "NOT_FOUND"


(***************************************************************************)
(* Error responses                                                         *)
(***************************************************************************)
\* the text sub occurs in the text
Contains(text, sub) ==
    /\ sub # << >>
    /\ \E i \in 1..Len(text) :
         i + Len(sub) - 1 <= Len(text) /\ SubSeq(text, i, i + Len(sub) - 1) = sub

\* the details and the underlying error of the error given to handleError
Internals(err) ==
    IF err.kind = "app" THEN {err.Details, err.Err} \ {<< >>} ELSE {err.text}

IsRatio(e, q, n, d) == 2 * (e * d - q * 10000 * n) <= d /\ 2 * (q * 10000 * n - e * d) <= d

\* C22: the score of an item, in units of 1/10000, is base x coefficient +
\* freshness + engagement with base views/1000 + likes/100 and coefficient
\* 1.5 for a video, reading_time + reactions/50 and 1.0 for an article,
\* freshness 5, 3, 1, 0 for at most 7, 30, 90 or more whole days, and
\* engagement 10 x likes/views or 5 x reactions/reading_time, 0 when the
\* divisor is 0 or absent; 50000 views, 2500 likes, 3 days give 118.0
C22_ScoreFormula ==
    call.fn = "CalculateFinalScore" =>
        LET c == call.c
            o == call.out
            days == AgeInDays(call.hours)
            rt == IF c.ReadingTime = Nil THEN 0 ELSE c.ReadingTime
        IN  /\ o.final = o.weighted + o.freshness + o.engagement
            /\ c.Type = "video" =>
                  /\ 1000 * o.base = 10000 * c.Views + 10 * 10000 * c.Likes
                  /\ 10 * o.weighted = 15 * o.base
                  /\ IF c.Views = 0 THEN o.engagement = 0
                     ELSE IsRatio(o.engagement, 10, c.Likes, c.Views)
            /\ c.Type = "article" =>
                  /\ 50 * o.base = 50 * 10000 * rt + 10000 * c.Reactions
                  /\ o.weighted = o.base
                  /\ IF rt = 0 THEN o.engagement = 0
                     ELSE IsRatio(o.engagement, 5, c.Reactions, rt)
            /\ o.freshness = (CASE days <= 7  -> 50000
                                [] days > 7 /\ days <= 30 -> 30000
                                [] days > 30 /\ days <= 90 -> 10000
                                [] OTHER -> 0)
            /\ (c.Type = "video" /\ c.Views = 50000 /\ c.Likes = 2500 /\ days = 3)
                  => o.final = 1180000

C22_Witness ==
    /\ call.fn = "CalculateFinalScore"
    /\ call.c.Type = "video" /\ call.c.Views = 50000 /\ call.c.Likes = 2500
    /\ call.hours = 3 * 24
    /\ call.out.final = 1180000

\* the article of the scenario, scored 45 days after its publication
IsScenarioArticle ==
    /\ call.fn = "CalculateFinalScore"
    /\ call.c.Type = "article"
    /\ call.c.ReadingTime = 10 /\ call.c.Reactions = 500
    /\ AgeInDays(call.hours) = 45

\* C23 as stated: the article with reading_time 10 and reactions 500, 45
\* days old, has base 20, weighted base 20, freshness 3, engagement 250
\* and the score 273.0
C23_Article273 ==
    IsScenarioArticle =>
        /\ call.out.base = 200000
        /\ call.out.weighted = 200000
        /\ call.out.freshness = 30000
        /\ call.out.engagement = 2500000
        /\ call.out.final = 2730000

\* C23: the article with reading_time 10 and reactions 500, 45 days old,
\* has base 20, weighted base 20, freshness 1 (45 days is more than 30 and
\* at most 90), engagement 250 and the score 271.0
C23_Article271 ==
    IsScenarioArticle =>
        /\ call.out.base = 200000
        /\ call.out.weighted = 200000
        /\ call.out.freshness = 10000
        /\ call.out.engagement = 2500000
        /\ call.out.final = 2710000

C23_Witness ==
    /\ IsScenarioArticle
    /\ call.hours = 45 * 24
    /\ call.out.final = 2710000


(***************************************************************************)
(* Bulk recomputation                                                      *)
(***************************************************************************)
\* the stored score of row i is the score of its stored metrics
Scored(i) == contents[i].score = CalculateFinalScore(ContentOf(contents[i]), NowDay)

\* C24: after a pass over the whole corpus every stored item whose update
\* did not fail holds its recomputed score, and after a pass over one
\* provider every item of that provider whose update did not fail does
C24_PassReachesScope ==
    /\ (bulk.on /\ bulk.pass = "all") =>
          \A i \in 1..Len(contents) : i \notin bulk.failIds => Scored(i)
    /\ (bulk.on /\ bulk.pass = "provider") =>
          \A i \in 1..Len(contents) :
             (contents[i].provider_id = bulk.p /\ i \notin bulk.failIds) => Scored(i)


(***************************************************************************)
(* Concurrent upserts of one pair                                          *)
(***************************************************************************)
\* the rows stored for the pair the two syncs process
PairRows == { i \in 1..Len(contents) : /\ contents[i].provider_id = 1
                                       /\ contents[i].external_id = "a" }

\* C25: when both syncs have finished their upsert of the pair, exactly one
\* row exists for it, the row holds what the sync whose write was issued
\* last wrote, and neither sync had its item rejected
C25_LastWriterWins ==
    (ups.on /\ \A s \in Syncs : ups.pc[s] = "done") =>
        /\ Cardinality(PairRows) = 1
        /\ \A i \in PairRows : contents[i] = RowOf(ups.item[ups.last])
        /\ \A s \in Syncs : ups.ok[s]


(***************************************************************************)
(* Cancellation of a search                                                *)
(***************************************************************************)
\* C26: once the caller's context is cancelled or past its deadline no
\* count, page, tag or cache call of the search is started or left running,
\* and the search returns no result to the caller
C26_CancellationReachesEveryCall ==
    (cx.on /\ cx.done # "no") =>
        /\ cx.after = {}
        /\ cx.result # "response"


(***************************************************************************)
(* Tag replacement                                                         *)
(***************************************************************************)
\* C27: a reader sees the complete old tag set until the commit and the
\* complete new one after it; no (content, label) pair is stored twice by
\* the transaction; a failed call leaves the stored table as it was, a
\* successful one replaces the tags of the item only
C27_ReplaceTagsAtomic ==
    tx.on =>
        /\ tx.read => tx.seen = IF tx.seenAt = "done" /\ tx.committed
                                THEN SeqToSet(tx.newTags)
                                ELSE TagsOf(tx.before, tx.contentID)
        /\ ~HasDuplicate(tx.work)
        /\ (tx.pc = "done" /\ tx.result = "error") => tags = tx.before
        /\ (tx.pc = "done" /\ tx.result = "ok") =>
              /\ TagsOf(tags, tx.contentID) = SeqToSet(tx.newTags)
              /\ \A r \in tags \cup tx.before :
                    r[1] # tx.contentID => (r \in tags <=> r \in tx.before)

\* a reader read the old, non-empty set after the DELETE of a call whose
\* INSERT then failed on a repeated label
C27_Witness ==
    /\ tx.on /\ tx.pc = "done" /\ tx.result = "error"
    /\ HasDuplicate(tx.newTags)
    /\ tx.read /\ tx.seenAt = "deleted"
    /\ tx.seen # {} /\ tx.seen = TagsOf(tx.before, tx.contentID)


(***************************************************************************)
(* Concurrent Get and Set on one key                                       *)
(***************************************************************************)
\* C28: under every interleaving the value of the most recent Set on the
\* key stays stored until its own expiry; in particular the delete of a Get
\* that read an expired entry never removes a newer, unexpired one
C28_SetStaysVisible ==
    (cg.on /\ LastSetLive(RaceKey)) =>
        /\ RaceKey \in DOMAIN cItems
        /\ cItems[RaceKey].value = cLast[RaceKey].value


(***************************************************************************)
(* Termination of FetchAll                                                 *)
(***************************************************************************)
\* C29: FetchAll returns once every provider's calls have returned, however
\* many providers fail and however RegisterProvider calls interleave
C29_FetchAllTerminates == (fa.on /\ fa.pc = "make") ~> (fa.pc = "returned")


(***************************************************************************)
(* Migration files                                                         *)
(***************************************************************************)
\* the lines of the file that are neither blank nor comments
KeptLines(file) ==
    SelectSeq(file, LAMBDA line : /\ TrimSpace(line) # <<>>
                                  /\ ~HasPrefix(TrimSpace(line), <<"-", "-">>))

\* the number of groups of kept lines that a line ending in a semicolon closes
TerminatedGroups(file) ==
    Len(SelectSeq(KeptLines(file), LAMBDA line : HasSuffix(TrimSpace(line), <<";">>)))

\* C30: parseSQLStatements returns one statement per semicolon-terminated
\* group of lines, every statement is non-empty and has no trailing
\* semicolon, and the initial schema yields exactly four statements
C30_OneStatementPerGroup ==
    call.fn = "parseSQLStatements" =>
        /\ Len(call.out) = TerminatedGroups(call.file)
        /\ \A i \in 1..Len(call.out) :
              /\ call.out[i] # <<>>
              /\ ~HasSuffix(call.out[i], <<";">>)
        /\ call.file = InitialSchema => Len(call.out) = 4

=============================================================================
